---------------------------- MODULE Spec2Model ----------------------------
(***************************************************************************)
(* Media-Extraction gateway: the action decision engine                    *)
(* (processing/match-action.js), the tunnel endpoint (app.get('/tunnel')   *)
(* in stream/shared.js, with the stream store of stream/manage.js), the    *)
(* request-timeout middleware (requestTimeout, unnamed/part_007) with the  *)
(* POST / handler, and the matching orchestrator (unnamed/part_004) with   *)
(* its metadata cache (util/lru-cache.js).                                 *)
(*                                                                         *)
(* Each subsystem has its own specification over the shared variables:     *)
(*   SpecDecide, SpecTunnel, SpecTimeout, SpecMatch.                       *)
(***************************************************************************)
EXTENDS Integers, Sequences, FiniteSets, TLC

VARIABLES
    deIn,          \* decision engine: the arguments of the current call
    deOut,         \* decision engine: its result, NoDecision before the call
    now,           \* Date.now(), in abstract time units
    streamCache,   \* tunnel store: id -> stored entry (ciphertext, expiry)
    issued,        \* tunnel references the server has returned so far
    tunnelReq,     \* the tunnel request being served, NoRequest when idle
    tunnelRes,     \* what the handler did for tunnelReq
    reqs,          \* POST / requests: per request the handler and res state
    metadataCache, \* match.js metadataCache (an LRUCache)
    resolverCalls, \* number of service-handler invocations so far
    calls,         \* match() calls in flight or finished
    lru,           \* an LRUCache driven through its public methods
    lruOp,         \* the last method called on lru and what it returned
    urlIn,         \* the URL string a client of normalizeURL starts from
    normalizedURLCache, \* url.js normalizedURLCache (an LRUCache)
    urlCall,       \* the last call of normalizeURL and what it returned
    env,           \* config.js env, as far as extract reads it
    patternMatchCache, \* url.js patternMatchCache (an LRUCache)
    extractCall,   \* the last call a client of url.js made, and its result
    proxy,         \* stream/proxy.js: one proxied tunnel request
    ipKeyCache,    \* runAPI ipKeyCache: ip -> cached rate-limit key
    limitStore,    \* the store of apiLimiter: key -> hits and reset time
    apiReqs,       \* POST / requests as the middleware chain answered them
    dl,            \* a createResponse call and the auto-download it started
    df,            \* a downloadFile call: its attempts and its delays
    posts,         \* POST / requests with the effects of their match() call
    keyCall,       \* two generateCacheKey calls: their arguments and keys
    share,         \* the objects a resolver result and its cache entry share
    breaker        \* a CircuitBreaker and the last execute call on it

vars == <<deIn, deOut, now, streamCache, issued, tunnelReq, tunnelRes,
          reqs, metadataCache, resolverCalls, calls, lru, lruOp,
          urlIn, normalizedURLCache, urlCall, env, patternMatchCache,
          extractCall, proxy, ipKeyCache, limitStore, apiReqs,
          dl, df, posts, keyCall, share, breaker>>

deVars     == <<deIn, deOut>>
tunnelVars == <<streamCache, issued, tunnelReq, tunnelRes>>
reqVars    == <<reqs>>
matchVars  == <<metadataCache, resolverCalls, calls>>
lruVars    == <<lru, lruOp>>
urlVars    == <<urlIn, normalizedURLCache, urlCall>>
extractVars == <<env, patternMatchCache, extractCall>>
proxyVars  == <<proxy>>
limitVars  == <<ipKeyCache, limitStore, apiReqs>>
dlVars     == <<dl, df>>
moreVars   == <<posts, keyCall, share, breaker>>
restVars   == <<limitVars, dlVars, moreVars>>

\* the variables of the library components
auxVars    == <<lruVars, urlVars, extractVars, proxyVars, restVars>>

\* the variables of the subsystems above the late-response model
baseVars   == <<deVars, tunnelVars, reqVars, matchVars, lruVars, urlVars,
                extractVars, proxyVars, limitVars, dlVars>>

None == "none"

-----------------------------------------------------------------------------
(***************************************************************************)
(* Action decision engine, processing/match-action.js                      *)
(***************************************************************************)

Hosts == {"bilibili", "facebook", "instagram", "reddit", "soundcloud",
          "tiktok", "twitter", "xiaohongshu", "youtube"}

audioIgnore == {}

extraProcessingTypes == {"merge", "remux", "mute", "audio", "gif"}

\* r.type is returned by the youtube, reddit and twitter handlers only
HostTypes(host) ==
    IF host \in {"youtube", "reddit", "twitter"}
    THEN {"proxy", "merge", "remux"} ELSE {None}

\* r.typeId is returned by the reddit handler only
HostTypeIds(host) ==
    IF host = "reddit" THEN {"redirect", "tunnel"} ELSE {None}

\* r.subtitles is returned by the youtube and tiktok handlers only
HostSubtitles(host) ==
    IF host \in {"youtube", "tiktok"} THEN BOOLEAN ELSE {FALSE}

\* The arguments of a call for host h: the service result r and the
\* preferences match.js passes.  downloadMode yields isAudioOnly/isAudioMuted.
DecideInputs(h) ==
    { [ host |-> h, isPhoto |-> ph, picker |-> pk, isGif |-> gf,
        isHLS |-> hl, urlsIsArray |-> ua, type |-> ty, typeId |-> ti,
        bestAudio |-> ba, subtitles |-> st,
        convertGif |-> cg, isAudioOnly |-> (dm = "audio"),
        isAudioMuted |-> (dm = "mute"), audioFormat |-> af,
        alwaysProxy |-> ap, localProcessing |-> lp ] :
      ph \in BOOLEAN, pk \in BOOLEAN, gf \in BOOLEAN,
      hl \in BOOLEAN, ua \in BOOLEAN,
      ty \in HostTypes(h), ti \in HostTypeIds(h),
      ba \in {None, "mp3"}, st \in HostSubtitles(h),
      cg \in BOOLEAN, dm \in {"auto", "audio", "mute"},
      af \in {"best", "mp3"}, ap \in BOOLEAN,
      lp \in {"disabled", "preferred", "forced"} }

\* the arguments while no call is made
IdleInput ==
    [ host |-> "youtube", isPhoto |-> FALSE, picker |-> FALSE,
      isGif |-> FALSE, isHLS |-> FALSE, urlsIsArray |-> FALSE,
      type |-> "proxy", typeId |-> None, bestAudio |-> None,
      subtitles |-> FALSE, convertGif |-> FALSE, isAudioOnly |-> FALSE,
      isAudioMuted |-> FALSE, audioFormat |-> "best",
      alwaysProxy |-> FALSE, localProcessing |-> "disabled" ]

NoDecision ==
    [status |-> "pending", action |-> None, code |-> None,
     responseType |-> None, type |-> None, isHLS |-> FALSE]

\* match-action.js:195-201 with photo and picker tested in the other order
DetermineActionPickerFirst(a) ==
    IF a.picker THEN "picker"
    ELSE IF a.isPhoto THEN "photo"
    ELSE IF a.isGif /\ a.convertGif THEN "gif"
    ELSE IF a.isAudioOnly THEN "audio"
    ELSE IF a.isAudioMuted THEN "muteVideo"
    ELSE IF a.isHLS THEN "hls"
    ELSE "video"

\* match-action.js:195-201
DetermineAction(a) ==
    IF a.isPhoto THEN "photo"
    ELSE IF a.picker THEN "picker"
    ELSE IF a.isGif /\ a.convertGif THEN "gif"
    ELSE IF a.isAudioOnly THEN "audio"
    ELSE IF a.isAudioMuted THEN "muteVideo"
    ELSE IF a.isHLS THEN "hls"
    ELSE "video"

\* match-action.js:576-580: the audio case answers with an error response
AudioNotSupported(a) ==
    a.host \in audioIgnore \/ (a.host = "reddit" /\ a.typeId = "redirect")

\* match-action.js:251-674, the switch: params.type
ParamsType(a, action) ==
    CASE action = "photo" -> "proxy"
      [] action = "gif" -> "gif"
      [] action = "hls" -> IF a.urlsIsArray THEN "merge" ELSE "remux"
      [] action = "muteVideo" ->
            IF a.urlsIsArray /\ ~a.isHLS THEN "proxy" ELSE "mute"
      [] action = "picker" -> None
      [] action = "video" ->
            CASE a.host = "bilibili" -> "merge"
              [] a.host \in {"youtube", "reddit"} -> a.type
              [] a.host = "twitter" ->
                    IF a.type = "remux" THEN a.type ELSE None
              [] a.host = "tiktok" ->
                    IF a.subtitles THEN "remux" ELSE "proxy"
              [] a.host = "xiaohongshu" -> "proxy"
              [] OTHER -> None
      [] action = "audio" ->
            IF a.isHLS THEN "audio"
            ELSE IF a.audioFormat = "best" /\ a.bestAudio # None
                      /\ a.host # "soundcloud"
                 THEN "proxy" ELSE "audio"

\* match-action.js:251-674, the switch: params.isHLS (undefined is falsy)
ParamsIsHLS(a, action) ==
    CASE action = "hls" -> TRUE
      [] action \in {"muteVideo", "audio"} -> a.isHLS
      [] OTHER -> FALSE

\* match-action.js:251-674, the switch: responseType, "tunnel" by default
SwitchResponseType(a, action) ==
    CASE action = "picker" -> "picker"
      [] action = "muteVideo" ->
            IF a.host = "reddit" /\ a.typeId = "redirect"
            THEN "redirect" ELSE "tunnel"
      [] action = "video" ->
            CASE a.host = "reddit" -> a.typeId
              [] a.host = "twitter" ->
                    IF a.type = "remux" THEN "tunnel" ELSE "redirect"
              [] a.host \in {"facebook", "instagram"} -> "redirect"
              [] OTHER -> "tunnel"
      [] OTHER -> "tunnel"

\* match-action.js:686-689 with the redirect left as it is
ForceProxyOff(a, rt, type) == [responseType |-> rt, type |-> type]

\* match-action.js:686-689
ForceProxy(a, rt, type) ==
    IF a.alwaysProxy /\ rt = "redirect"
    THEN [responseType |-> "tunnel", type |-> "proxy"]
    ELSE [responseType |-> rt, type |-> type]

\* match-action.js:707-719 with "preferred" treated as "forced"
LocalProcessingPreferredAlways(a, rt, type, isHLS) ==
    IF ~isHLS /\ rt # "picker" /\ a.localProcessing \in {"forced", "preferred"}
    THEN "local-processing" ELSE rt

\* match-action.js:707-719
LocalProcessing(a, rt, type, isHLS) ==
    IF ~isHLS /\ rt # "picker"
       /\ (a.localProcessing = "forced"
           \/ (a.localProcessing = "preferred"
               /\ type \in extraProcessingTypes))
    THEN "local-processing" ELSE rt

\* match-action.js:64-819, the default export
MatchAction(a) ==
    LET action == DetermineAction(a)
        type0  == ParamsType(a, action)
        isHLS  == ParamsIsHLS(a, action)
        rt0    == SwitchResponseType(a, action)
        fp     == ForceProxy(a, rt0, type0)
        rt     == LocalProcessing(a, fp.responseType, fp.type, isHLS)
    IN  IF action = "audio" /\ AudioNotSupported(a)
        THEN [status |-> "error", action |-> action,
              code |-> "error.api.service.audio_not_supported",
              responseType |-> "error", type |-> None, isHLS |-> FALSE]
        ELSE [status |-> "done", action |-> action, code |-> None,
              responseType |-> rt, type |-> fp.type, isHLS |-> isHLS]

DecideInit ==
    /\ deIn = IdleInput
    /\ deOut = NoDecision

\* match.js calls the decision engine with the handler result and the
\* preferences of a request; the engine returns its decision
Decide ==
    /\ deOut = NoDecision
    /\ \E h \in Hosts : \E a \in DecideInputs(h) :
          /\ deIn' = a
          /\ deOut' = MatchAction(a)
    /\ UNCHANGED <<now, tunnelVars, reqVars, matchVars,
                   auxVars>>

\* the response has been returned; the engine keeps no state
DecideDone ==
    /\ deOut # NoDecision
    /\ deIn' = IdleInput
    /\ deOut' = NoDecision
    /\ UNCHANGED <<now, tunnelVars, reqVars, matchVars,
                   auxVars>>

-----------------------------------------------------------------------------
(***************************************************************************)
(* Tunnel protocol: issuance (createResponse "tunnel" -> createStream) and *)
(* the GET /tunnel handler (-> verifyStream -> stream)                     *)
(***************************************************************************)

MaxTunnels == 2

\* how far the clock of the tunnel specification runs
TunnelMaxTime == 2

\* env.streamLifespan in time units (TUNNEL_LIFESPAN)
StreamLifespan == 1

IdLength == 21
ExpLength == 13
SigLength == 43
SecLength == 43
IvLength == 22

\* String(undefined).length, the length of a missing query parameter
UndefinedLength == 9

Ids == 1..MaxTunnels
UnknownId == 0

\* per-tunnel key material: a key and an IV
Keys == {1, 2}
Ivs == {1, 2}

\* the (key, iv) pairs the random generator yields
KeyIvs == {<<1, 2>>, <<2, 1>>}

\* stream descriptors handed to createStream
Descriptors ==
    { [service |-> "tiktok", url |-> "u1", headers |-> "h1",
       type |-> "proxy"],
      [service |-> "youtube", url |-> "u2", headers |-> None,
       type |-> "merge"] }

\* sig = HMAC(serverSecret, id || exp); distinct inputs give distinct MACs
Hmac(id, exp) == <<"hmac", id, exp>>

\* a signature the server never produced
Forged == Hmac(UnknownId, 0)

\* symmetric encryption of the descriptor under (key, iv)
Encrypt(d, key, iv) == [key |-> key, iv |-> iv, plain |-> d]

\* what JSON.parse yields for bytes that are not a descriptor
NoPlain == [service |-> None, url |-> None, headers |-> None, type |-> None]

NoCipher == [key |-> 0, iv |-> 0, plain |-> NoPlain]

NoEntry == [present |-> FALSE, ct |-> NoCipher, expiresAt |-> 0]

\* decryption; NoPlain when the output does not parse as a descriptor
Decrypt(c, key, iv) ==
    IF c.key = key /\ c.iv = iv THEN c.plain ELSE NoPlain

\* a verifyStream result without a status
NoStatus == 0

NoInfo ==
    [status |-> NoStatus, service |-> None, url |-> None, headers |-> None,
     type |-> None, range |-> None]

VerifyFail(st) == [NoInfo EXCEPT !.status = st]

\* store read with the active expiry check
StoreGet(id) ==
    IF id \in Ids /\ streamCache[id].present
       /\ now <= streamCache[id].expiresAt
    THEN streamCache[id].ct ELSE NoCipher

\* stream/manage.js verifyStream
VerifyStream(q) ==
    IF q.sig # Hmac(q.id, q.exp) THEN VerifyFail(401)
    ELSE IF now > q.exp THEN VerifyFail(404)
    ELSE IF StoreGet(q.id) = NoCipher THEN VerifyFail(404)
    ELSE LET plain == Decrypt(StoreGet(q.id), q.sec, q.iv)
         IN  IF plain = NoPlain THEN VerifyFail(404)
             ELSE [status |-> NoStatus, service |-> plain.service,
                   url |-> plain.url, headers |-> plain.headers,
                   type |-> plain.type, range |-> None]

WellFormedLens ==
    [id |-> IdLength, exp |-> ExpLength, sig |-> SigLength,
     sec |-> SecLength, iv |-> IvLength]

\* one parameter missing, empty or one character too long
MalformedLens ==
    UNION { { [WellFormedLens EXCEPT ![f] = l] :
                l \in {0, UndefinedLength, WellFormedLens[f] + 1} } :
            f \in {"id", "exp", "sig", "sec", "iv"} }

\* shared.js:773-776 with the check of sig, sec and iv left out
CheckLengthsBaseOnly(q) ==
    /\ q.lens.id > 0 /\ q.lens.exp > 0
    /\ q.lens.id = IdLength /\ q.lens.exp = ExpLength

\* shared.js:773-779: checkQueries, checkBaseLength, checkSafeLength
CheckLengths(q) ==
    /\ \A f \in DOMAIN q.lens : q.lens[f] > 0
    /\ q.lens.id = IdLength /\ q.lens.exp = ExpLength
    /\ q.lens.sig = SigLength /\ q.lens.sec = SecLength
    /\ q.lens.iv = IvLength

\* shared.js:787-790 with the status verifyStream returned ignored
FailStatusNotFound(si) == 404

\* shared.js:787-790 with every verification failure answered 401
FailStatusUnauthorized(si) == 401

\* shared.js:787-790: streamInfo?.status || 404
FailStatus(si) == IF si.status # NoStatus THEN si.status ELSE 404

\* shared.js:792-794 with an assignment for the comparison
SetRangeAssign(si, range) == [si EXCEPT !.type = "proxy", !.range = range]

\* shared.js:792-794: the client's Range header is kept for proxy streams
SetRange(si, range) ==
    IF si.type = "proxy" THEN [si EXCEPT !.range = range] ELSE si

NoResponse ==
    [status |-> 0, verified |-> FALSE, opened |-> FALSE, info |-> NoInfo]

\* shared.js:764-809, app.get('/tunnel'): the status sent, whether
\* verifyStream was called, whether stream() was called and with what
TunnelHandler(q) ==
    IF ~CheckLengths(q)
    THEN [NoResponse EXCEPT !.status = 400]
    ELSE IF q.p
    THEN [NoResponse EXCEPT !.status = 200]
    ELSE LET si == VerifyStream(q)
         IN  IF si.service = None
             THEN [NoResponse EXCEPT !.status = FailStatus(si),
                                     !.verified = TRUE]
             ELSE [status |-> 200, verified |-> TRUE, opened |-> TRUE,
                   info |-> SetRange(si, q.range)]

NoRequest ==
    [id |-> UnknownId, exp |-> 0, sig |-> Forged, sec |-> 1, iv |-> 1,
     p |-> FALSE, range |-> None, lens |-> WellFormedLens, sent |-> FALSE]

RefOf(rf) ==
    [NoRequest EXCEPT !.id = rf.id, !.exp = rf.exp, !.sig = rf.sig,
                      !.sec = rf.sec, !.iv = rf.iv, !.sent = TRUE]

\* the query strings a client can build from a reference it was given:
\* the reference itself, or the reference with one parameter replaced
Tampered(rf) ==
    LET q == RefOf(rf)
    IN  {q}
        \cup { [q EXCEPT !.sig = s] :
                 s \in ({x.sig : x \in issued} \cup {Forged}) \ {rf.sig} }
        \cup { [q EXCEPT !.exp = e] : e \in {rf.exp + 1, rf.exp + 2} }
        \cup { [q EXCEPT !.id = i] : i \in (Ids \cup {UnknownId}) \ {rf.id} }
        \cup { [q EXCEPT !.sec = k] : k \in Keys \ {rf.sec} }
        \cup { [q EXCEPT !.iv = v] : v \in Ivs \ {rf.iv} }

TunnelInit ==
    /\ streamCache = [i \in Ids |-> NoEntry]
    /\ issued = {}
    /\ tunnelReq = NoRequest
    /\ tunnelRes = NoResponse

\* stream/manage.js createStream: a fresh id, key and iv; the ciphertext is
\* stored under the id for the tunnel lifespan and the reference returned
CreateStream(d, key, iv) ==
    LET id  == Cardinality(issued) + 1
        exp == now + StreamLifespan
    IN  /\ id \in Ids
        /\ streamCache' =
              [streamCache EXCEPT ![id] =
                  [present |-> TRUE, ct |-> Encrypt(d, key, iv),
                   expiresAt |-> exp]]
        /\ issued' = issued \cup
              { [id |-> id, exp |-> exp, sig |-> Hmac(id, exp),
                 sec |-> key, iv |-> iv, d |-> d] }

\* request.js:49-54, createResponse("tunnel", responseData)
CreateTunnelResponse ==
    /\ ~tunnelReq.sent
    /\ \E d \in Descriptors, kv \in KeyIvs : CreateStream(d, kv[1], kv[2])
    /\ UNCHANGED <<now, tunnelReq, tunnelRes, deVars, reqVars, matchVars,
                   auxVars>>

\* GET /tunnel with a reference, possibly altered, and the p marker
TunnelGet ==
    /\ ~tunnelReq.sent
    /\ \E rf \in issued : \E q \in Tampered(rf), p \in BOOLEAN,
          range \in {None, "bytes=0-"} :
          LET req == [q EXCEPT !.p = p, !.range = range]
          IN  /\ range # None => q = RefOf(rf)
              /\ tunnelReq' = req
              /\ tunnelRes' = TunnelHandler(req)
    /\ UNCHANGED <<now, streamCache, issued, deVars, reqVars, matchVars,
                   auxVars>>

\* GET /tunnel with a missing, empty or over-long parameter
TunnelGetMalformed ==
    /\ ~tunnelReq.sent
    /\ \E lens \in MalformedLens, p \in BOOLEAN :
          LET base == IF issued = {} THEN NoRequest
                      ELSE RefOf(CHOOSE rf \in issued : rf.id = 1)
              req  == [base EXCEPT !.lens = lens, !.p = p, !.sent = TRUE]
          IN  /\ tunnelReq' = req
              /\ tunnelRes' = TunnelHandler(req)
    /\ UNCHANGED <<now, streamCache, issued, deVars, reqVars, matchVars,
                   auxVars>>

\* the store drops the entries whose lifespan is over
StoreSweep ==
    /\ ~tunnelReq.sent
    /\ \E i \in Ids : streamCache[i].present /\ now > streamCache[i].expiresAt
    /\ streamCache' =
          [i \in Ids |->
              IF streamCache[i].present /\ now > streamCache[i].expiresAt
              THEN NoEntry ELSE streamCache[i]]
    /\ UNCHANGED <<now, issued, tunnelReq, tunnelRes, deVars, reqVars,
                   matchVars,
                   auxVars>>

\* the request is over
TunnelDone ==
    /\ tunnelReq.sent
    /\ tunnelReq' = NoRequest
    /\ tunnelRes' = NoResponse
    /\ UNCHANGED <<now, streamCache, issued, deVars, reqVars, matchVars,
                   auxVars>>

TunnelTick ==
    /\ ~tunnelReq.sent
    /\ now < TunnelMaxTime
    /\ now' = now + 1
    /\ UNCHANGED <<tunnelVars, deVars, reqVars, matchVars,
                   auxVars>>

-----------------------------------------------------------------------------
(***************************************************************************)
(* Request timeout middleware and the POST / handler                       *)
(***************************************************************************)

MaxRequests == 2

\* how far the clock of the other specifications runs
MaxTime == 3

\* env.requestTimeout in time units (REQUEST_TIMEOUT)
TimeoutMs == 2

ReqIds == 1..MaxRequests

NoDeadline == 0

IdleReq ==
    [pc |-> "idle", headersSent |-> FALSE, timerArmed |-> FALSE,
     deadline |-> NoDeadline, responses |-> <<>>]

\* res.status(status).json(body): the response goes out, headersSent turns
\* true and the res.end installed by requestTimeout (part_007:43-47)
\* clears the timer
Json(r, status, by) ==
    [r EXCEPT !.headersSent = TRUE,
              !.timerArmed = FALSE,
              !.responses = Append(@, [status |-> status, by |-> by,
                                       at |-> now])]

\* shared.js:627-629 without the headersSent test
SendResultUnguarded(r, status) == Json(r, status, "handler")

\* shared.js:627-635: the result of match is sent unless a response went out
SendResult(r, status) ==
    IF ~r.headersSent THEN Json(r, status, "handler") ELSE r

\* shared.js:182-189, fail after its await: the error is sent unless a
\* response went out
FailSend(r) ==
    IF ~r.headersSent THEN Json(r, 400, "fail") ELSE r

\* part_007:21-40 with the callback doing nothing
TimeoutCallbackSilent(r) == [r EXCEPT !.timerArmed = FALSE]

\* part_007:21-40, the setTimeout callback
TimeoutCallback(r) ==
    IF ~r.headersSent
    THEN Json([r EXCEPT !.timerArmed = FALSE], 504, "timeout")
    ELSE [r EXCEPT !.timerArmed = FALSE]

TimeoutInit == reqs = [i \in ReqIds |-> IdleReq]

\* part_007:19-50: a request arrives, the middleware arms the timer and
\* calls next()
Arrive(i) ==
    /\ reqs[i].pc = "idle"
    /\ reqs' = [reqs EXCEPT ![i].pc = "validate",
                            ![i].timerArmed = TRUE,
                            ![i].deadline = now + TimeoutMs]
    /\ UNCHANGED <<now, deVars, tunnelVars, matchVars,
                   auxVars>>

\* shared.js:362-373, 558-598: a header, body, url or extraction check
\* fails and fail() is called; it awaits createResponse
ValidateFails(i) ==
    /\ reqs[i].pc = "validate"
    /\ reqs' = [reqs EXCEPT ![i].pc = "failAwait"]
    /\ UNCHANGED <<now, deVars, tunnelVars, matchVars,
                   auxVars>>

\* shared.js:600-624: the checks pass and the handler awaits match()
ValidateOk(i) ==
    /\ reqs[i].pc = "validate"
    /\ reqs' = [reqs EXCEPT ![i].pc = "awaitMatch"]
    /\ UNCHANGED <<now, deVars, tunnelVars, matchVars,
                   auxVars>>

\* shared.js:618-635: match() resolves with a response
MatchReturns(i) ==
    /\ reqs[i].pc = "awaitMatch"
    /\ \E status \in {200, 400, 500} :
          reqs' = [reqs EXCEPT
                      ![i] = [SendResult(@, status) EXCEPT !.pc = "done"]]
    /\ UNCHANGED <<now, deVars, tunnelVars, matchVars,
                   auxVars>>

\* shared.js:636-647: match() rejects; fail() is called unless a response
\* went out
MatchThrows(i) ==
    /\ reqs[i].pc = "awaitMatch"
    /\ reqs' = [reqs EXCEPT ![i].pc =
                  IF ~reqs[i].headersSent THEN "failAwait" ELSE "done"]
    /\ UNCHANGED <<now, deVars, tunnelVars, matchVars,
                   auxVars>>

\* shared.js:163-190: fail() resumes after createResponse
FailResume(i) ==
    /\ reqs[i].pc = "failAwait"
    /\ reqs' = [reqs EXCEPT ![i] = [FailSend(@) EXCEPT !.pc = "done"]]
    /\ UNCHANGED <<now, deVars, tunnelVars, matchVars,
                   auxVars>>

\* the timer of request i expires
TimerFires(i) ==
    /\ reqs[i].timerArmed
    /\ now >= reqs[i].deadline
    /\ reqs' = [reqs EXCEPT ![i] = TimeoutCallback(@)]
    /\ UNCHANGED <<now, deVars, tunnelVars, matchVars,
                   auxVars>>

\* time passes; an armed timer runs its callback when it is due
TimerTick ==
    /\ now < MaxTime
    /\ \A i \in ReqIds : reqs[i].timerArmed => now < reqs[i].deadline
    /\ now' = now + 1
    /\ UNCHANGED <<reqVars, deVars, tunnelVars, matchVars,
                   auxVars>>

-----------------------------------------------------------------------------
(***************************************************************************)
(* LRUCache, util/lru-cache.js.  A cache is a record                       *)
(*   [max, ttl, cache, accessOrder, accessCounter]                         *)
(* where cache maps every key to an entry (present or not) and accessOrder *)
(* maps it to its access number (NoAccess when it has none).               *)
(***************************************************************************)

\* expiresAt of an entry stored without a TTL (null)
NullExpiry == 0

NoAccess == 0

\* a ttl argument of set() that was not passed (null)
NoTtl == -1

\* lru-cache.js:25-31, the constructor
NewLRUCache(max, ttl, keys, undefinedValue) ==
    [max |-> max, ttl |-> ttl,
     cache |-> [k \in keys |->
                  [present |-> FALSE, value |-> undefinedValue,
                   expiresAt |-> NullExpiry]],
     accessOrder |-> [k \in keys |-> NoAccess],
     accessCounter |-> 0,
     undefinedValue |-> undefinedValue]

\* lru-cache.js:131-133, the size getter
LruSize(L) == Cardinality({k \in DOMAIN L.cache : L.cache[k].present})

\* lru-cache.js:112-115, delete
LruDelete(L, key) ==
    [L EXCEPT !.cache[key] = [present |-> FALSE, value |-> L.undefinedValue,
                              expiresAt |-> NullExpiry],
              !.accessOrder[key] = NoAccess]

\* lru-cache.js:46-51: the expiry test of get
LruExpired(L, key, t) ==
    /\ L.ttl > 0
    /\ L.cache[key].expiresAt # NullExpiry
    /\ t > L.cache[key].expiresAt

\* a get that also renews the expiry of the entry it finds
LruGetRefreshing(L, key, t) ==
    IF ~L.cache[key].present THEN L
    ELSE IF LruExpired(L, key, t) THEN LruDelete(L, key)
    ELSE [L EXCEPT !.cache[key].expiresAt = t + L.ttl,
                   !.accessOrder[key] = L.accessCounter + 1,
                   !.accessCounter = L.accessCounter + 1]

\* lru-cache.js:39-56, get: the cache after the call
LruGet(L, key, t) ==
    IF ~L.cache[key].present THEN L
    ELSE IF LruExpired(L, key, t) THEN LruDelete(L, key)
    ELSE [L EXCEPT !.accessOrder[key] = L.accessCounter + 1,
                   !.accessCounter = L.accessCounter + 1]

\* lru-cache.js:39-56, get: the value returned
LruGetValue(L, key, t) ==
    IF L.cache[key].present /\ ~LruExpired(L, key, t)
    THEN L.cache[key].value ELSE L.undefinedValue

\* lru-cache.js:140-164 with the comparison of the scan turned round
EvictMostRecent(L) ==
    LET tracked == {k \in DOMAIN L.accessOrder : L.accessOrder[k] # NoAccess}
    IN  IF tracked = {} THEN L
        ELSE LruDelete(L, CHOOSE k \in tracked :
                 \A j \in tracked : L.accessOrder[k] >= L.accessOrder[j])

\* lru-cache.js:140-164, evictLRU; keys are non-empty strings, so the
\* truthiness test of the key found passes
EvictLRU(L) ==
    LET tracked == {k \in DOMAIN L.accessOrder : L.accessOrder[k] # NoAccess}
    IN  IF tracked = {} THEN L
        ELSE LruDelete(L, CHOOSE k \in tracked :
                 \A j \in tracked : L.accessOrder[k] <= L.accessOrder[j])

\* lru-cache.js:65-82, set; ttl is NoTtl when the argument is not passed
LruSet(L, key, value, ttl, t) ==
    LET L1 == IF LruSize(L) >= L.max /\ ~L.cache[key].present
              THEN EvictLRU(L) ELSE L
        expiresAt == IF ttl # NoTtl THEN t + ttl
                     ELSE IF L.ttl > 0 THEN t + L.ttl ELSE NullExpiry
    IN  [L1 EXCEPT !.cache[key] = [present |-> TRUE, value |-> value,
                                   expiresAt |-> expiresAt],
                   !.accessOrder[key] = L1.accessCounter + 1,
                   !.accessCounter = L1.accessCounter + 1]

\* lru-cache.js:90-104, has: the cache after the call
LruHas(L, key, t) ==
    IF L.cache[key].present /\ LruExpired(L, key, t)
    THEN LruDelete(L, key) ELSE L

\* lru-cache.js:90-104, has: the value returned
LruHasValue(L, key, t) ==
    L.cache[key].present /\ ~LruExpired(L, key, t)

\* lru-cache.js:171-187, cleanup
LruCleanup(L, t) ==
    IF L.ttl = 0 THEN L
    ELSE LET dead == {k \in DOMAIN L.cache :
                        /\ L.cache[k].present
                        /\ L.cache[k].expiresAt # NullExpiry
                        /\ t > L.cache[k].expiresAt}
         IN  [L EXCEPT !.cache = [k \in DOMAIN L.cache |->
                                    IF k \in dead
                                    THEN [present |-> FALSE,
                                          value |-> L.undefinedValue,
                                          expiresAt |-> NullExpiry]
                                    ELSE L.cache[k]],
                       !.accessOrder = [k \in DOMAIN L.accessOrder |->
                                           IF k \in dead THEN NoAccess
                                           ELSE L.accessOrder[k]]]

-----------------------------------------------------------------------------
(***************************************************************************)
(* A client of LRUCache: any sequence of calls of its public methods       *)
(***************************************************************************)

\* options.max of the cache under test
LruMax == 2

\* options.ttl of the cache under test when it has one, and the ttl
\* argument of set() when one is passed
LruTtl == 1

\* number of set() and get() calls made on the cache
LruMaxOps == 4

\* the time a client of the cache is followed for
LruMaxTime == 2

\* cache keys: distinct non-empty strings, one more than the cache holds
LruKeys == 1..(LruMax + 1)

\* get() of a key that has no entry (undefined)
NoValue == 0

\* the value stored by set()
SomeValue == 1

NoLruOp ==
    [op |-> "none", key |-> 0, hit |-> FALSE, expiresAt |-> NullExpiry,
     at |-> 0, before |-> NewLRUCache(LruMax, LruTtl, LruKeys, NoValue),
     useBefore |-> [k \in LruKeys |-> 0],
     use |-> [k \in LruKeys |-> 0], seq |-> 0]

LruInit ==
    /\ lru = NewLRUCache(LruMax, LruTtl, LruKeys, NoValue)
    /\ lruOp = NoLruOp

\* the record of a call: the method, its key, whether it returned a value
\* (get) or true (has), the expiry of the entry it returned, the cache
\* before the call and, per key in the cache before and after it, the
\* number of its most recent set or successful get
LruRecord(op, key, hit, used, after) ==
    [op |-> op, key |-> key, hit |-> hit,
     expiresAt |-> IF hit THEN lru.cache[key].expiresAt ELSE NullExpiry,
     at |-> now, before |-> lru, useBefore |-> lruOp.use,
     use |-> [k \in LruKeys |->
                IF ~after.cache[k].present THEN 0
                ELSE IF used /\ k = key THEN lruOp.seq + 1
                ELSE lruOp.use[k]],
     seq |-> IF used THEN lruOp.seq + 1 ELSE lruOp.seq]

\* new LRUCache({ max }) instead of new LRUCache({ max, ttl })
LruConstruct ==
    /\ lruOp = NoLruOp
    /\ lru = NewLRUCache(LruMax, LruTtl, LruKeys, NoValue)
    /\ lru' = NewLRUCache(LruMax, 0, LruKeys, NoValue)
    /\ lruOp' = [NoLruOp EXCEPT !.op = "new", !.before = lru']
    /\ UNCHANGED <<now, deVars, tunnelVars, reqVars, matchVars, urlVars,
                   extractVars, proxyVars,
                   restVars>>

LruDoSet(k, ttl) ==
    /\ lru.accessCounter < LruMaxOps
    /\ lru' = LruSet(lru, k, SomeValue, ttl, now)
    /\ lruOp' = LruRecord("set", k, FALSE, TRUE, lru')
    /\ UNCHANGED <<now, deVars, tunnelVars, reqVars, matchVars, urlVars,
                   extractVars, proxyVars,
                   restVars>>

LruDoGet(k) ==
    /\ lru.accessCounter < LruMaxOps
    /\ lru' = LruGet(lru, k, now)
    /\ LET hit == LruGetValue(lru, k, now) # NoValue
       IN  lruOp' = LruRecord("get", k, hit, hit, lru')
    /\ UNCHANGED <<now, deVars, tunnelVars, reqVars, matchVars, urlVars,
                   extractVars, proxyVars,
                   restVars>>

LruDoHas(k) ==
    /\ lru' = LruHas(lru, k, now)
    /\ lruOp' = LruRecord("has", k, LruHasValue(lru, k, now), FALSE, lru')
    /\ UNCHANGED <<now, deVars, tunnelVars, reqVars, matchVars, urlVars,
                   extractVars, proxyVars,
                   restVars>>

LruDoDelete(k) ==
    /\ lru.cache[k].present
    /\ lru' = LruDelete(lru, k)
    /\ lruOp' = LruRecord("delete", k, FALSE, FALSE, lru')
    /\ UNCHANGED <<now, deVars, tunnelVars, reqVars, matchVars, urlVars,
                   extractVars, proxyVars,
                   restVars>>

LruDoCleanup ==
    /\ lru' = LruCleanup(lru, now)
    /\ lruOp' = LruRecord("cleanup", 0, FALSE, FALSE, lru')
    /\ UNCHANGED <<now, deVars, tunnelVars, reqVars, matchVars, urlVars,
                   extractVars, proxyVars,
                   restVars>>

LruTick ==
    /\ now < LruMaxTime
    /\ now' = now + 1
    /\ UNCHANGED <<lruVars, deVars, tunnelVars, reqVars, matchVars,
                   urlVars, extractVars, proxyVars,
                   restVars>>

-----------------------------------------------------------------------------
(***************************************************************************)
(* Matching orchestrator, the default export of part_004 (match.js)        *)
(***************************************************************************)

MaxCalls == 2

\* metadataCache: max (1000 in part_004:48) and ttl (CACHE_TTL.METADATA),
\* scaled
MetadataMax == 2
MetadataTtl == 2

CallIds == 1..MaxCalls

\* a request: the service, the length of the id the pattern captured and a
\* parameter that shapes the content
MatchInputs ==
    [host : {"youtube"}, idLength : {11, 12}, videoQuality : {"720", "1080"}]
    \cup [host : {"twitter"}, idLength : {19, 20}, videoQuality : {"720"}]

\* service-patterns.js:1-46, testers
Tester(in) ==
    CASE in.host = "youtube" -> in.idLength <= 11
      [] in.host = "twitter" -> in.idLength < 20
      [] OTHER -> FALSE

\* part_004:60-83, generateCacheKey
GenerateCacheKey(in) == <<in.host, in.idLength, in.videoQuality>>

MetaKeys == { GenerateCacheKey(in) : in \in MatchInputs }

NoUrl == 0

\* undefined: no handler result, no cached metadata
Undefined ==
    [defined |-> FALSE, error |-> None, critical |-> FALSE, urls |-> NoUrl,
     headers |-> NoUrl, originalRequest |-> NoUrl, picker |-> <<>>,
     title |-> None]

\* the error codes a service handler reports
ResolverErrors == {"content.too_long", "fetch.fail"}

\* what the handler of a service can return on its n-th invocation overall:
\* the media URLs and headers it hands out are good for that invocation
\* only.  The twitter handler can return a picker whose items carry direct
\* media URLs (match-action.js:354-364).
HandlerResults(host, n) ==
    { [defined |-> TRUE, error |-> None, critical |-> FALSE, urls |-> n,
       headers |-> n, originalRequest |-> n, picker |-> pk, title |-> t] :
        pk \in (IF host = "twitter" THEN {<<>>, <<n>>} ELSE {<<>>}),
        t \in {"t1", "t2"} }
    \cup
    { [Undefined EXCEPT !.defined = TRUE, !.error = e, !.critical = c] :
        e \in ResolverErrors, c \in BOOLEAN }

\* part_004:93-108, createCacheableMetadata
CreateCacheableMetadata(response) ==
    [response EXCEPT !.urls = NoUrl, !.headers = NoUrl,
                     !.originalRequest = NoUrl]

\* part_004:117-128 with the cached object returned as it is
MergeKeepCached(cached, fresh) == cached

\* part_004:117-128, mergeCachedMetadata
MergeCachedMetadata(cached, fresh) ==
    [cached EXCEPT !.urls = fresh.urls, !.headers = fresh.headers,
                   !.originalRequest = fresh.originalRequest,
                   !.error = fresh.error, !.critical = fresh.critical]

\* `error.api.${error}`
ApiCode(error) == <<"error.api", error>>

NoCode == <<>>

NoMatchResponse ==
    [status |-> 0, code |-> NoCode, context |-> None, critical |-> FALSE]

IdleCall ==
    [pc |-> "idle", in |-> CHOOSE in \in MatchInputs : TRUE,
     cacheRead |-> FALSE, cachedMetadata |-> Undefined, invocations |-> 0,
     serial |-> 0, result |-> Undefined, threw |-> FALSE,
     handed |-> Undefined, response |-> NoMatchResponse]

\* tiktok.js:1259-1313 and 1362-1372, getErrorContext: the duration limit
\* for content.too_long, the service name for the fetch and link errors
GetErrorContext(error, host) ==
    CASE error = "content.too_long" -> "limit"
      [] error \in {"fetch.fail", "fetch.critical", "link.unsupported"}
            -> host
      [] OTHER -> None

\* tiktok.js:1326-1351, handleServiceError (called with an error set)
HandleServiceError(r, host) ==
    [type |-> IF r.critical THEN "critical" ELSE "error",
     code |-> ApiCode(r.error),
     context |-> GetErrorContext(r.error, host)]

\* tiktok.js:1384-1399 with the code of the thrown error passed on
HandleUnexpectedErrorLeaky(host) ==
    [type |-> "error", code |-> ApiCode("fetch.fail"), context |-> host]

\* tiktok.js:1384-1399, handleUnexpectedError
HandleUnexpectedError(host) ==
    [type |-> "error", code |-> ApiCode("fetch.critical"), context |-> host]

\* request.js:10-40 and 103-104, createResponse for the types "error" and
\* "critical" (internalError)
CreateErrorResponse(e) ==
    IF e.type = "critical"
    THEN [status |-> 500, code |-> e.code, context |-> None,
          critical |-> TRUE]
    ELSE [status |-> 400, code |-> e.code, context |-> e.context,
          critical |-> FALSE]

\* part_004:316-330: the error response of a handler result with an error
ErrorResponse(r, host) == CreateErrorResponse(HandleServiceError(r, host))

MatchInit ==
    /\ metadataCache = NewLRUCache(MetadataMax, MetadataTtl, MetaKeys,
                                   Undefined)
    /\ resolverCalls = 0
    /\ calls = [c \in CallIds |-> IdleCall]

\* part_004:215 with the tester's verdict ignored
TesterRejectsNever(in) == FALSE

\* part_004:215: !(testers[host](patternMatch))
TesterRejects(in) == ~Tester(in)

\* part_004:205-222: the pattern match fails the service's tester
MatchRejects(c) ==
    /\ calls[c].pc = "idle"
    /\ \A b \in CallIds : b < c => calls[b].pc # "idle"
    /\ \E in \in MatchInputs :
          /\ TesterRejects(in)
          /\ calls' = [calls EXCEPT ![c] =
                [@ EXCEPT !.pc = "done", !.in = in,
                          !.response = CreateErrorResponse(
                              [type |-> "error",
                               code |-> ApiCode("link.unsupported"),
                               context |-> in.host])]]
    /\ UNCHANGED <<metadataCache, resolverCalls, now, deVars, tunnelVars,
                   reqVars,
                   auxVars>>

\* part_004:224-283: the cache is read, then the service handler is called
\* and awaited
MatchBegin(c) ==
    /\ calls[c].pc = "idle"
    /\ \A b \in CallIds : b < c => calls[b].pc # "idle"
    /\ \E in \in MatchInputs :
          LET key == GenerateCacheKey(in)
          IN  /\ ~TesterRejects(in)
              /\ metadataCache' = LruGet(metadataCache, key, now)
              /\ resolverCalls' = resolverCalls + 1
              /\ calls' = [calls EXCEPT ![c] =
                    [@ EXCEPT !.pc = "awaitHandler", !.in = in,
                              !.cacheRead = TRUE,
                              !.cachedMetadata =
                                  LruGetValue(metadataCache, key, now),
                              !.invocations = @ + 1,
                              !.serial = resolverCalls + 1]]
    /\ UNCHANGED <<now, deVars, tunnelVars, reqVars,
                   auxVars>>

\* a test that lets the metadata of every result of a miss be cached
ShouldCacheAnyResult(cached, fresh) == ~cached.defined

\* part_004:297-299: else if (!r.error), the result of a miss is cached
ShouldCache(cached, fresh) == ~cached.defined /\ fresh.error = None

\* part_004:297: if (cachedMetadata && !r.error), the result is merged
ShouldMerge(cached, fresh) == cached.defined /\ fresh.error = None

\* part_004:283-378: the handler returns r; cached metadata is merged with
\* it or its metadata is cached; an error is answered, anything else is
\* handed to matchAction
HandlerReturns(c) ==
    /\ calls[c].pc = "awaitHandler"
    /\ \E fresh \in HandlerResults(calls[c].in.host, calls[c].serial) :
          LET cached == calls[c].cachedMetadata
              key    == GenerateCacheKey(calls[c].in)
              r      == IF ShouldMerge(cached, fresh)
                        THEN MergeCachedMetadata(cached, fresh)
                        ELSE fresh
          IN  /\ metadataCache' =
                    IF ShouldCache(cached, fresh)
                    THEN LruSet(metadataCache, key,
                                CreateCacheableMetadata(fresh), NoTtl, now)
                    ELSE metadataCache
              /\ calls' = [calls EXCEPT ![c] =
                    IF r.error # None
                    THEN [@ EXCEPT !.pc = "done", !.result = fresh,
                                   !.response =
                                       ErrorResponse(r, calls[c].in.host)]
                    ELSE [@ EXCEPT !.pc = "done", !.result = fresh,
                                   !.handed = r,
                                   !.response =
                                       [NoMatchResponse EXCEPT
                                           !.status = 200]]]
    /\ UNCHANGED <<resolverCalls, now, deVars, tunnelVars, reqVars,
                   auxVars>>

\* part_004:379-394: the handler throws or rejects; the catch block answers
\* with handleUnexpectedError
HandlerThrows(c) ==
    /\ calls[c].pc = "awaitHandler"
    /\ calls' = [calls EXCEPT ![c] =
          [@ EXCEPT !.pc = "done", !.threw = TRUE,
                    !.response = CreateErrorResponse(
                        HandleUnexpectedError(calls[c].in.host))]]
    /\ UNCHANGED <<metadataCache, resolverCalls, now, deVars, tunnelVars,
                   reqVars,
                   auxVars>>

MatchTick ==
    /\ now < MaxTime
    /\ now' = now + 1
    /\ UNCHANGED <<matchVars, deVars, tunnelVars, reqVars,
                   auxVars>>

-----------------------------------------------------------------------------
(***************************************************************************)
(* URL normalization, part_005 (processing/url.js) and                     *)
(* processing/url-normalizers.js.  A URL object is a record                *)
(*   [hostname, path, query, extras]                                       *)
(* where path is the sequence of the segments of its pathname ("/a//" is   *)
(* <<"a", "", "">>, "/" is <<"">>), query holds the decoded value of each  *)
(* parameter (None when absent) and extras says that it has a username, a  *)
(* password, a port or a hash.  A URL string has the same fields and typo, *)
(* which says that it starts with "https//".                               *)
(***************************************************************************)

\* entries the normalized-URL cache holds at most, in place of 10000
UrlCacheMax == 2

\* the TTL of the normalized-URL cache, in place of 10 minutes
UrlCacheTtl == 1

\* set() and successful get() calls on the normalized-URL cache
UrlMaxOps == 3

\* the time a client of normalizeURL is followed for
UrlMaxTime == 2

UrlHostnames ==
    {"youtube.com", "youtu.be", "x.com", "vxtwitter.com", "fixvx.com",
     "bilibili.com", "bilibili.tv", "b23.tv", "facebook.com", "fb.watch",
     "v.redd.it", "xhslink.com", "vimeo.com"}

\* the result of psl.parse for a domain under a one-label public suffix
PslOf(subdomain, sld, tld) ==
    [subdomain |-> subdomain, sld |-> sld, tld |-> tld]

\* psl.parse(hostname): the subdomain (None for null), the second-level
\* label and the public suffix
Psl(hostname) ==
    CASE hostname = "youtube.com"      -> PslOf(None, "youtube", "com")
      [] hostname = "youtu.be"         -> PslOf(None, "youtu", "be")
      [] hostname = "twitter.com"      -> PslOf(None, "twitter", "com")
      [] hostname = "x.com"            -> PslOf(None, "x", "com")
      [] hostname = "vxtwitter.com"    -> PslOf(None, "vxtwitter", "com")
      [] hostname = "fixvx.com"        -> PslOf(None, "fixvx", "com")
      [] hostname = "bilibili.com"     -> PslOf(None, "bilibili", "com")
      [] hostname = "bilibili.tv"      -> PslOf(None, "bilibili", "tv")
      [] hostname = "b23.tv"           -> PslOf(None, "b23", "tv")
      [] hostname = "facebook.com"     -> PslOf(None, "facebook", "com")
      [] hostname = "web.facebook.com" -> PslOf("web", "facebook", "com")
      [] hostname = "fb.watch"         -> PslOf(None, "fb", "watch")
      [] hostname = "v.redd.it"        -> PslOf("v", "redd", "it")
      [] hostname = "www.reddit.com"   -> PslOf("www", "reddit", "com")
      [] hostname = "xhslink.com"      -> PslOf(None, "xhslink", "com")
      [] hostname = "www.xiaohongshu.com" ->
                                          PslOf("www", "xiaohongshu", "com")
      [] OTHER                         -> PslOf(None, "vimeo", "com")

\* service-config.js:111, services.twitter.altDomains
TwitterAltDomains == {"x.com", "vxtwitter.com", "fixvx.com"}

UrlPaths ==
    {<<"">>, <<"a">>, <<"a", "">>, <<"a", "", "">>, <<"shorts", "a">>,
     <<"live", "">>}

NoQuery ==
    [v |-> None, p |-> None, post_id |-> None, xsec_token |-> None,
     other |-> None]

\* the query strings: ?v=, ?p=, ?post_id= and any other parameter
UrlQueries ==
    {NoQuery,
     [NoQuery EXCEPT !.v = "x"],
     [NoQuery EXCEPT !.v = ""],
     [NoQuery EXCEPT !.v = "x", !.other = "x"],
     [NoQuery EXCEPT !.p = "x"],
     [NoQuery EXCEPT !.p = "x", !.other = "x"],
     [NoQuery EXCEPT !.post_id = "x"],
     [NoQuery EXCEPT !.post_id = "x", !.v = "x"],
     [NoQuery EXCEPT !.other = "x"]}

\* the URL strings a client passes to normalizeURL
UrlInputs ==
    [hostname : UrlHostnames, path : UrlPaths, query : UrlQueries,
     extras : BOOLEAN, typo : BOOLEAN]

\* new URL(`https://${hostname}/${path}`)
NewURL(hostname, path) ==
    [hostname |-> hostname, path |-> path, query |-> NoQuery,
     extras |-> FALSE]

\* part_005:189, new URL(url.replace(/^https\/\//, 'https://'))
ParseURL(s) ==
    [hostname |-> s.hostname, path |-> s.path, query |-> s.query,
     extras |-> s.extras]

\* part_005:195, normalized.toString()
Href(url) ==
    [hostname |-> url.hostname, path |-> url.path, query |-> url.query,
     extras |-> url.extras, typo |-> FALSE]

\* url.pathname.startsWith('/' + first + '/')
PathStartsWith(url, first) == Len(url.path) >= 2 /\ url.path[1] = first

\* url-normalizers.js:33-43; parts[2] is the second segment, and the query
\* holds the decoded value of what encodeURIComponent wrote
AliasYoutube(url) ==
    IF PathStartsWith(url, "live") \/ PathStartsWith(url, "shorts")
    THEN [url EXCEPT !.path = <<"watch">>,
                     !.query = [NoQuery EXCEPT !.v = url.path[2]]]
    ELSE url

\* url-normalizers.js:48-60; parts.length >= 2 holds for every pathname
AliasYoutu(url) ==
    IF url.hostname = "youtu.be"
    THEN [NewURL("youtube.com", <<"watch">>)
             EXCEPT !.query = [NoQuery EXCEPT !.v = url.path[1]]]
    ELSE url

\* url-normalizers.js:69-76
AliasTwitter(url) ==
    IF url.hostname \in TwitterAltDomains
    THEN [url EXCEPT !.hostname = "twitter.com"]
    ELSE url

\* url-normalizers.js:85-94
AliasBilibili(url, host) ==
    IF host.tld = "tv"
    THEN NewURL("bilibili.com", <<"_tv">> \o url.path)
    ELSE url

\* url-normalizers.js:99-108; parts.length === 2 is a path of one segment
AliasB23(url) ==
    IF url.hostname = "b23.tv" /\ Len(url.path) = 1
    THEN NewURL("bilibili.com", <<"_shortLink", url.path[1]>>)
    ELSE url

\* url-normalizers.js:117-130; parts is split from the pathname of the
\* argument, the hostname is read from the URL the first test may replace
AliasFacebook(url) ==
    LET u1 == IF url.query.v \notin {None, ""}
              THEN NewURL("web.facebook.com",
                          <<"user", "videos", url.query.v>>)
              ELSE url
    IN  IF u1.hostname = "fb.watch"
        THEN NewURL("web.facebook.com", <<"_shortLink", url.path[1]>>)
        ELSE u1

\* url-normalizers.js:153-162; parts.length === 3 is a path of two segments
AliasXiaohongshu(url) ==
    IF url.hostname = "xhslink.com" /\ Len(url.path) = 2
    THEN NewURL("www.xiaohongshu.com", url.path)
    ELSE url

\* url-normalizers.js:170-181
AliasReddit(url) ==
    IF url.hostname = "v.redd.it" /\ Len(url.path) = 1
    THEN NewURL("www.reddit.com", <<"video", url.path[1]>>)
    ELSE url

\* url-normalizers.js:253-277, applyAliasMapping: aliasMappers[host.sld],
\* then altMappers[host.sld]
ApplyAliasMapping(url, host) ==
    CASE host.sld = "youtube"              -> AliasYoutube(url)
      [] host.sld = "youtu"                -> AliasYoutu(url)
      [] host.sld = "twitter"              -> AliasTwitter(url)
      [] host.sld = "bilibili"             -> AliasBilibili(url, host)
      [] host.sld = "b23"                  -> AliasB23(url)
      [] host.sld = "facebook"             -> AliasFacebook(url)
      [] host.sld = "xiaohongshu"          -> AliasXiaohongshu(url)
      [] host.sld = "reddit"               -> AliasReddit(url)
      [] host.sld \in {"vxtwitter", "fixvx", "x"} -> AliasTwitter(url)
      [] host.sld = "fb"                   -> AliasFacebook(url)
      [] OTHER                             -> url

\* part_005:75-84, aliasURL
AliasURL(url) == ApplyAliasMapping(url, Psl(url.hostname))

\* url-normalizers.js:192-243, cleanMappers: the parameter a service keeps
KeptParameter(sld) ==
    CASE sld = "youtube"  -> "v"
      [] sld = "bilibili" -> "p"
      [] sld = "twitter"  -> "post_id"
      [] sld = "xiaohongshu" -> "xsec_token"
      [] OTHER            -> None

\* url-normalizers.js:286-295, applyCleanMapping with the assignment to
\* url.search of part_005:116-118: the query that is left
CleanQuery(url, sld) ==
    LET kept == KeptParameter(sld)
    IN  IF kept # None /\ url.query[kept] \notin {None, ""}
        THEN [NoQuery EXCEPT ![kept] = url.query[kept]]
        ELSE NoQuery

\* part_005:124-126: slice(0, -1) removes one "/", and the pathname setter
\* turns an empty pathname into "/"
RemoveTrailingSlash(path) ==
    IF path[Len(path)] = ""
    THEN IF Len(path) = 1 THEN <<"">> ELSE SubSeq(path, 1, Len(path) - 1)
    ELSE path

\* part_005:107-129, cleanURL
CleanURL(url) ==
    [hostname |-> url.hostname,
     path |-> RemoveTrailingSlash(url.path),
     query |-> CleanQuery(url, Psl(url.hostname).sld),
     extras |-> FALSE]

\* part_005:187-191, normalizeURL without its cache
Normalize(s) == CleanURL(AliasURL(ParseURL(s)))

RECURSIVE NormalizeTimes(_, _)
\* the string after n rounds of normalizeURL(...).toString()
NormalizeTimes(s, n) ==
    IF n = 0 THEN s ELSE Href(Normalize(NormalizeTimes(s, n - 1)))

\* the strings a client that starts from s may pass to normalizeURL
UrlKeys(s) == {NormalizeTimes(s, n) : n \in 0..UrlMaxOps}

\* normalizedURLCache.get() returning undefined
UndefinedHref ==
    [hostname |-> None, path |-> <<>>, query |-> NoQuery, extras |-> FALSE,
     typo |-> FALSE]

NoResult ==
    [hostname |-> None, path |-> <<>>, query |-> NoQuery, extras |-> FALSE]

NoUrlCall ==
    [arg |-> UndefinedHref, result |-> NoResult, hit |-> FALSE,
     again |-> FALSE, previous |-> NoResult, previousHit |-> FALSE]

\* the string of the client while no client is looked at
IdleUrl ==
    [hostname |-> "vimeo.com", path |-> <<"a">>, query |-> NoQuery,
     extras |-> FALSE, typo |-> FALSE]

\* part_005:51-54; the cache is followed on the strings the client passes
UrlInit(s) ==
    /\ urlIn = s
    /\ normalizedURLCache =
           NewLRUCache(UrlCacheMax, UrlCacheTtl, UrlKeys(s), UndefinedHref)
    /\ urlCall = NoUrlCall

\* part_005:180-198, normalizeURL(s); again says that s is the string of
\* the URL the previous call returned
NormalizeURL(s, again) ==
    /\ normalizedURLCache.accessCounter < UrlMaxOps
    /\ LET cached == LruGetValue(normalizedURLCache, s, now)
           hit    == cached # UndefinedHref
           looked == LruGet(normalizedURLCache, s, now)
           normalized == Normalize(s)
       IN  /\ normalizedURLCache' =
                 IF hit THEN looked
                 ELSE LruSet(looked, s, Href(normalized), NoTtl, now)
           /\ urlCall' =
                 [arg |-> s,
                  result |-> IF hit THEN ParseURL(cached) ELSE normalized,
                  hit |-> hit, again |-> again,
                  previous |-> urlCall.result,
                  previousHit |-> urlCall.hit]
    /\ UNCHANGED <<urlIn, now, deVars, tunnelVars, reqVars, matchVars,
                   lruVars, extractVars, proxyVars,
                   restVars>>

\* the client normalizes its string
NormalizeInput == NormalizeURL(urlIn, FALSE)

\* the client normalizes the URL the previous call returned
NormalizeResult ==
    /\ urlCall.result # NoResult
    /\ NormalizeURL(Href(urlCall.result), TRUE)

\* part_005:57-60, the periodic cleanup
UrlCleanup ==
    /\ normalizedURLCache' = LruCleanup(normalizedURLCache, now)
    /\ normalizedURLCache' # normalizedURLCache
    /\ UNCHANGED <<urlIn, urlCall, now, deVars, tunnelVars, reqVars,
                   matchVars, lruVars, extractVars, proxyVars,
                   restVars>>

UrlTick ==
    /\ now < UrlMaxTime
    /\ now' = now + 1
    /\ UNCHANGED <<urlVars, deVars, tunnelVars, reqVars, matchVars,
                   lruVars, extractVars, proxyVars,
                   restVars>>

-----------------------------------------------------------------------------
(***************************************************************************)
(* Service extraction, part_005 (processing/url.js) and                    *)
(* processing/service-config.js.  A pattern is a record [path, query]:     *)
(* path is the sequence of its segments, a literal or a named parameter,   *)
(* and query is <<parameter, name>> for a pattern that ends in             *)
(* "?parameter=:name" and <<>> for one that does not.                      *)
(***************************************************************************)

\* the services of service-config.js the hostnames above can belong to
Services ==
    {"bilibili", "facebook", "reddit", "twitter", "xiaohongshu", "youtube"}

Lit(text) == <<"lit", text>>

Var(name) == <<"var", name>>

Pattern(path, query) == [path |-> path, query |-> query]

\* service-config.js:6-129, services[host].patterns in declaration order;
\* the reddit patterns with "u_:user" come after patterns that match the
\* same paths with :sub and are left out
ServicePatterns(host) ==
    CASE host = "bilibili" ->
           <<Pattern(<<Lit("video"), Var("comId")>>, <<>>),
             Pattern(<<Lit("video"), Var("comId")>>, <<"p", "partId">>),
             Pattern(<<Lit("_shortLink"), Var("comShortLink")>>, <<>>),
             Pattern(<<Lit("_tv"), Var("lang"), Lit("video"), Var("tvId")>>,
                     <<>>),
             Pattern(<<Lit("_tv"), Lit("video"), Var("tvId")>>, <<>>)>>
      [] host = "facebook" ->
           <<Pattern(<<Lit("_shortLink"), Var("shortLink")>>, <<>>),
             Pattern(<<Var("username"), Lit("videos"), Var("caption"),
                       Var("id")>>, <<>>),
             Pattern(<<Var("username"), Lit("videos"), Var("id")>>, <<>>),
             Pattern(<<Lit("reel"), Var("id")>>, <<>>),
             Pattern(<<Lit("share"), Var("shareType"), Var("id")>>, <<>>)>>
      [] host = "reddit" ->
           <<Pattern(<<Lit("r"), Var("sub"), Lit("comments"), Var("id")>>,
                     <<>>),
             Pattern(<<Lit("r"), Var("sub"), Lit("comments"), Var("id"),
                       Var("title")>>, <<>>),
             Pattern(<<Lit("comments"), Var("id")>>, <<>>),
             Pattern(<<Lit("user"), Var("user"), Lit("comments"),
                       Var("id")>>, <<>>),
             Pattern(<<Lit("user"), Var("user"), Lit("comments"), Var("id"),
                       Var("title")>>, <<>>),
             Pattern(<<Lit("r"), Var("sub"), Lit("comments"), Var("id"),
                       Lit("comment"), Var("commentId")>>, <<>>),
             Pattern(<<Lit("user"), Var("user"), Lit("comments"), Var("id"),
                       Lit("comment"), Var("commentId")>>, <<>>),
             Pattern(<<Lit("r"), Var("sub"), Lit("s"), Var("shareId")>>,
                     <<>>),
             Pattern(<<Lit("video"), Var("shortId")>>, <<>>)>>
      [] host = "twitter" ->
           <<Pattern(<<Var("user"), Lit("status"), Var("id")>>, <<>>),
             Pattern(<<Var("user"), Lit("status"), Var("id"), Lit("video"),
                       Var("index")>>, <<>>),
             Pattern(<<Var("user"), Lit("status"), Var("id"), Lit("photo"),
                       Var("index")>>, <<>>),
             Pattern(<<Lit("i"), Lit("bookmarks")>>, <<"post_id", "id">>),
             Pattern(<<Var("user"), Lit("status"), Var("id"),
                       Lit("mediaviewer")>>, <<>>),
             Pattern(<<Var("user"), Lit("status"), Var("id"),
                       Lit("mediaViewer")>>, <<>>)>>
      [] host = "xiaohongshu" ->
           <<Pattern(<<Lit("explore"), Var("id")>>,
                     <<"xsec_token", "token">>),
             Pattern(<<Lit("discovery"), Lit("item"), Var("id")>>,
                     <<"xsec_token", "token">>),
             Pattern(<<Var("shareType"), Var("shareId")>>, <<>>)>>
      [] OTHER ->
           <<Pattern(<<Lit("watch")>>, <<"v", "id">>),
             Pattern(<<Lit("v"), Var("id")>>, <<>>),
             Pattern(<<Lit("watch"), Var("id")>>, <<>>),
             Pattern(<<Lit("embed"), Var("id")>>, <<>>)>>

\* service-config.js: services[host].subdomains; "*" is any subdomain
ServiceSubdomains(host) ==
    CASE host = "bilibili"    -> {"m"}
      [] host = "facebook"    -> {"web", "m"}
      [] host = "reddit"      -> {"*"}
      [] host = "twitter"     -> {"mobile"}
      [] host = "xiaohongshu" -> {}
      [] OTHER                -> {"music", "m"}

\* part_005:143-165, getHostIfValid; no service of service-config.js sets
\* tld, so the TLD of every service is the default "com"
GetHostIfValid(url) ==
    LET host == Psl(url.hostname)
    IN  IF host.sld \notin Services THEN None
        ELSE IF host.tld # "com" THEN None
        ELSE IF /\ host.subdomain \notin
                      {None, "www"} \cup ServiceSubdomains(host.sld)
                /\ "*" \notin ServiceSubdomains(host.sld)
             THEN None
        ELSE host.sld

\* the parameters that url.search holds
SearchParameters(url) == {n \in DOMAIN url.query : url.query[n] # None}

\* pattern.match(pathToMatch) succeeds: a named parameter takes one or more
\* characters of a segment, and the pattern covers the whole of
\* pathname.substring(1) + search
PatternMatches(pattern, url) ==
    /\ Len(pattern.path) = Len(url.path)
    /\ \A i \in 1..Len(pattern.path) :
          IF pattern.path[i][1] = "lit"
          THEN url.path[i] = pattern.path[i][2]
          ELSE url.path[i] # ""
    /\ IF pattern.query = <<>>
       THEN SearchParameters(url) = {}
       ELSE /\ SearchParameters(url) = {pattern.query[1]}
            /\ url.query[pattern.query[1]] # ""

\* what pattern.match returns: the value of every named parameter
PatternMatch(pattern, url) ==
    {<<pattern.path[i][2], url.path[i]>> :
        i \in {j \in 1..Len(pattern.path) : pattern.path[j][1] = "var"}}
    \cup (IF pattern.query = <<>> THEN {}
          ELSE {<<pattern.query[2], url.query[pattern.query[1]]>>})

\* entries the pattern-match cache holds at most, in place of 5000
ExtractCacheMax == 2

\* the TTL of the pattern-match cache, in place of 5 minutes
ExtractCacheTtl == 1

\* set() and successful get() calls on the pattern-match cache
ExtractMaxOps == 3

\* the time a client of extract is followed for
ExtractMaxTime == 2

\* the URL objects a client passes to extract
ExtractUrls ==
    {[NewURL("youtube.com", <<"watch">>)
         EXCEPT !.query = [NoQuery EXCEPT !.v = "x"]],
     NewURL("youtube.com", <<"a">>),
     NewURL("vimeo.com", <<"a">>)}

\* a string that is not a URL, such as "not a url"
NotAUrl ==
    [hostname |-> "", path |-> <<>>, query |-> NoQuery, extras |-> FALSE,
     typo |-> FALSE]

\* new URL(s) throws a TypeError
Unparseable(s) == s.hostname = "" \/ s.typo

\* the strings a client passes to extract
ExtractStrings ==
    {Href(u) : u \in ExtractUrls}
    \cup {[Href(u) EXCEPT !.typo = TRUE] : u \in ExtractUrls}
    \cup {NotAUrl}

\* the sets a client passes as enabledServices
ServiceSets == {Services, Services \ {"youtube"}}

\* part_005:278-283, the context of link.unsupported; the friendly name is
\* a function of the service
ContextOf(host) == <<"service", host>>

\* what patternMatchCache.get returns for a key it does not hold
UndefinedResult ==
    [error |-> None, context |-> None, host |-> None, patternMatch |-> {}]

ErrorResult(error, context) ==
    [error |-> error, context |-> context, host |-> None,
     patternMatch |-> {}]

\* part_005:234-298, extract without its cache; official says that the
\* hostname of env.apiURL ends with ".imput.net"
ExtractResult(url, enabledServices, official) ==
    LET host     == GetHostIfValid(url)
        patterns == ServicePatterns(host)
        matching == {i \in 1..Len(patterns) : PatternMatches(patterns[i], url)}
    IN  IF host = None THEN ErrorResult("link.invalid", None)
        ELSE IF host \notin enabledServices
             THEN IF official /\ host = "youtube"
                  THEN ErrorResult("youtube.temporary_disabled", None)
                  ELSE ErrorResult("service.disabled", None)
        ELSE IF matching = {}
             THEN ErrorResult("link.unsupported", ContextOf(host))
        ELSE [error |-> None, context |-> None, host |-> host,
              patternMatch |->
                  PatternMatch(patterns[CHOOSE i \in matching :
                                   \A j \in matching : i <= j], url)]

\* a cache key that leaves the enabled services out
ExtractCacheKeyUrlOnly(url, enabledServices) == <<Href(url), Services>>

\* part_005:226-227, the cache key: the URL string and the sorted names of
\* the enabled services
ExtractCacheKey(url, enabledServices) == <<Href(url), enabledServices>>

ExtractKeys == {Href(u) : u \in ExtractUrls} \X ServiceSets

NoExtractKey == <<NotAUrl, {}>>

\* no call yet.  how is "miss", "hit" or, for a miss on a key that was
\* stored before, "recomputed"; shares says what the object the caller got
\* has in common with the cache entry: the "object" itself, its "inner"
\* objects, or nothing; stored are the keys stored so far; mutated says
\* that the caller has changed an object it got
NoExtractCall ==
    [fn |-> None, key |-> NoExtractKey, threw |-> FALSE, how |-> None,
     result |-> UndefinedResult, shares |-> None, stored |-> {},
     mutated |-> FALSE]

ExtractInit ==
    /\ patternMatchCache =
           NewLRUCache(ExtractCacheMax, ExtractCacheTtl, ExtractKeys,
                       UndefinedResult)
    /\ extractCall = NoExtractCall

\* part_005:218-299, extract(url, enabledServices) for a URL object
Extract(url, enabledServices) ==
    /\ patternMatchCache.accessCounter < ExtractMaxOps
    /\ LET cacheKey == ExtractCacheKey(url, enabledServices)
           cached   == LruGetValue(patternMatchCache, cacheKey, now)
           hit      == cached # UndefinedResult
           looked   == LruGet(patternMatchCache, cacheKey, now)
           result   == ExtractResult(url, enabledServices, env.official)
       IN  /\ patternMatchCache' =
                 IF hit THEN looked
                 ELSE LruSet(looked, cacheKey, result, NoTtl, now)
           /\ extractCall' =
                 [fn |-> "extract",
                  key |-> <<Href(url), enabledServices>>,
                  threw |-> FALSE,
                  how |-> IF hit THEN "hit"
                          ELSE IF cacheKey \in extractCall.stored
                               THEN "recomputed" ELSE "miss",
                  result |-> IF hit THEN cached ELSE result,
                  shares |-> IF hit THEN "inner" ELSE "object",
                  stored |-> IF hit THEN extractCall.stored
                             ELSE extractCall.stored \cup {cacheKey},
                  mutated |-> extractCall.mutated]
    /\ UNCHANGED <<env, now, deVars, tunnelVars, reqVars, matchVars,
                   lruVars, urlVars, proxyVars,
                   restVars>>

\* a call that throws before it reads or writes a cache entry
Throws(fn) ==
    /\ extractCall' =
          [fn |-> fn, key |-> NoExtractKey, threw |-> TRUE, how |-> None,
           result |-> UndefinedResult, shares |-> None,
           stored |-> extractCall.stored, mutated |-> extractCall.mutated]
    /\ UNCHANGED <<env, patternMatchCache, now, deVars, tunnelVars, reqVars,
                   matchVars, lruVars, urlVars, proxyVars,
                   restVars>>

\* part_005:220-222, extract(s, enabledServices) for a string
ExtractString(s, enabledServices) ==
    IF Unparseable(s) THEN Throws("extract")
    ELSE Extract(ParseURL(s), enabledServices)

\* part_005:180-191, normalizeURL(s) for a string that is not a URL:
\* the cache has no entry for it and new URL throws
NormalizeNotAUrl ==
    /\ extractCall.fn # "normalizeURL"
    /\ Throws("normalizeURL")

\* the caller assigns to a field of the object extract returned
MutateResult ==
    /\ extractCall.fn = "extract" /\ ~extractCall.threw
    /\ ~extractCall.mutated
    /\ LET key == extractCall.key
       IN  patternMatchCache' =
              IF /\ extractCall.shares = "object"
                 /\ patternMatchCache.cache[key].present
              THEN [patternMatchCache EXCEPT
                       !.cache[key].value.host = "mutated"]
              ELSE patternMatchCache
    /\ extractCall' = [extractCall EXCEPT !.mutated = TRUE]
    /\ UNCHANGED <<env, now, deVars, tunnelVars, reqVars, matchVars,
                   lruVars, urlVars, proxyVars,
                   restVars>>

\* the caller assigns to a parameter of the patternMatch map of the object
\* extract returned
MutatePatternMatch ==
    /\ extractCall.fn = "extract" /\ ~extractCall.threw
    /\ ~extractCall.mutated
    /\ extractCall.result.patternMatch # {}
    /\ LET key == extractCall.key
       IN  patternMatchCache' =
              IF /\ extractCall.shares \in {"object", "inner"}
                 /\ patternMatchCache.cache[key].present
              THEN [patternMatchCache EXCEPT
                       !.cache[key].value.patternMatch =
                           {<<m[1], "mutated">> : m \in @}]
              ELSE patternMatchCache
    /\ extractCall' = [extractCall EXCEPT !.mutated = TRUE]
    /\ UNCHANGED <<env, now, deVars, tunnelVars, reqVars, matchVars,
                   lruVars, urlVars, proxyVars,
                   restVars>>

\* part_005:57-60, the periodic cleanup
ExtractCleanup ==
    /\ patternMatchCache' = LruCleanup(patternMatchCache, now)
    /\ patternMatchCache' # patternMatchCache
    /\ UNCHANGED <<env, extractCall, now, deVars, tunnelVars, reqVars,
                   matchVars, lruVars, urlVars, proxyVars,
                   restVars>>

ExtractTick ==
    /\ now < ExtractMaxTime
    /\ now' = now + 1
    /\ UNCHANGED <<extractVars, deVars, tunnelVars, reqVars, matchVars,
                   lruVars, urlVars, proxyVars,
                   restVars>>

-----------------------------------------------------------------------------
(***************************************************************************)
(* Tunnel proxying, stream/proxy.js with closeRequest, closeResponse and   *)
(* pipe of stream/shared.js.  proxy is a record: pc is the position of the *)
(* handler ("idle", "requesting" while it awaits request(), "piping" after *)
(* pipe(), "failed" after the catch block), listening says that pipe()     *)
(* has registered shutdown on both streams, and the other fields are the   *)
(* abort controller, the client response, the upstream body and the number *)
(* of destroyInternalStream calls.                                         *)
(***************************************************************************)

\* the status codes of the upstream response
UpstreamStatusCodes == {200, 206, 404}

\* res.statusCode before the handler sets it
DefaultStatusCode == 200

IdleProxy ==
    [pc |-> "idle", listening |-> FALSE, aborted |-> FALSE,
     statusCode |-> DefaultStatusCode, headersSent |-> FALSE,
     ended |-> FALSE, clientClosed |-> FALSE, clientErrored |-> FALSE,
     upstreamClosed |-> FALSE, upstreamErrored |-> FALSE,
     destroyCalls |-> 0, shutdowns |-> 0]

ProxyInit == proxy = IdleProxy

\* shared.js:30-32, closeRequest
CloseRequest(p) == [p EXCEPT !.aborted = TRUE]

\* closeResponse that ends the response with the status it has
CloseResponseKeepStatus(p) ==
    [p EXCEPT !.headersSent = TRUE, !.ended = TRUE]

\* shared.js:34-40, closeResponse
CloseResponse(p) ==
    IF ~p.headersSent
    THEN [p EXCEPT !.statusCode = 500, !.headersSent = TRUE,
                   !.ended = TRUE]
    ELSE [p EXCEPT !.ended = TRUE]

\* proxy.js:12-16, shutdown
Shutdown(p) ==
    [CloseResponse(CloseRequest(p)) EXCEPT
        !.destroyCalls = @ + 1, !.shutdowns = @ + 1]

\* an event on a stream: the listeners that pipe() registered run
\* shutdown; without them nothing in the handler runs
Emit(p) == IF p.listening THEN Shutdown(p) ELSE p

\* proxy.js:10-34, up to the await of request()
ProxyStart ==
    /\ proxy.pc = "idle"
    /\ proxy' = [proxy EXCEPT !.pc = "requesting"]
    /\ UNCHANGED <<now, deVars, tunnelVars, reqVars, matchVars, lruVars,
                   urlVars, extractVars, restVars>>

\* proxy.js:35-50, request() resolves: the status and the headers are set
\* (they are not sent before the first write) and pipe() registers
\* shutdown on the body and on the response
RequestResolves(statusCode) ==
    /\ proxy.pc = "requesting"
    /\ proxy' = [proxy EXCEPT !.pc = "piping", !.listening = TRUE,
                              !.statusCode = statusCode]
    /\ UNCHANGED <<now, deVars, tunnelVars, reqVars, matchVars, lruVars,
                   urlVars, extractVars, restVars>>

\* proxy.js:51-59, request() rejects: the catch block runs shutdown
RequestRejects ==
    /\ proxy.pc = "requesting"
    /\ proxy' = [Shutdown(proxy) EXCEPT !.pc = "failed"]
    /\ UNCHANGED <<now, deVars, tunnelVars, reqVars, matchVars, lruVars,
                   urlVars, extractVars, restVars>>

\* from.pipe(to) writes a chunk of the body to the client
BodyData ==
    /\ proxy.pc = "piping"
    /\ ~proxy.ended /\ ~proxy.clientClosed /\ ~proxy.upstreamClosed
    /\ ~proxy.headersSent
    /\ proxy' = [proxy EXCEPT !.headersSent = TRUE]
    /\ UNCHANGED <<now, deVars, tunnelVars, reqVars, matchVars, lruVars,
                   urlVars, extractVars, restVars>>

\* 'error' on the client response
ClientErrors ==
    /\ proxy.pc \in {"requesting", "piping"}
    /\ ~proxy.clientErrored /\ ~proxy.clientClosed
    /\ proxy' = Emit([proxy EXCEPT !.clientErrored = TRUE])
    /\ UNCHANGED <<now, deVars, tunnelVars, reqVars, matchVars, lruVars,
                   urlVars, extractVars, restVars>>

\* 'close' on the client response: the client went away, or the response
\* was ended
ClientCloses ==
    /\ proxy.pc # "idle"
    /\ ~proxy.clientClosed
    /\ proxy' = Emit([proxy EXCEPT !.clientClosed = TRUE])
    /\ UNCHANGED <<now, deVars, tunnelVars, reqVars, matchVars, lruVars,
                   urlVars, extractVars, restVars>>

\* 'error' on the upstream body
UpstreamErrors ==
    /\ proxy.pc = "piping"
    /\ ~proxy.upstreamErrored /\ ~proxy.upstreamClosed
    /\ proxy' = Emit([proxy EXCEPT !.upstreamErrored = TRUE])
    /\ UNCHANGED <<now, deVars, tunnelVars, reqVars, matchVars, lruVars,
                   urlVars, extractVars, restVars>>

\* 'close' on the upstream body: it ended, errored or was aborted
UpstreamCloses ==
    /\ proxy.pc = "piping"
    /\ ~proxy.upstreamClosed
    /\ proxy' = Emit([proxy EXCEPT !.upstreamClosed = TRUE])
    /\ UNCHANGED <<now, deVars, tunnelVars, reqVars, matchVars, lruVars,
                   urlVars, extractVars, restVars>>

-----------------------------------------------------------------------------
(***************************************************************************)
(* Rate limiting of POST /, runAPI in stream/shared.js: the header check,  *)
(* apiLimiter with keyGenerator and handleRateExceeded, then the handler.  *)
(* apiReqs is the sequence of the requests so far; each holds the address  *)
(* it came from, the response the middleware chain wrote (status NoStatus  *)
(* while none), whether the chain called next() up to the handler, whether *)
(* the handler has extracted its URL, and the number nth of the request    *)
(* among those its client has made to the limiter in the window that       *)
(* started at time window, the key keyGenerator gave for it, whether the   *)
(* key came from ipKeyCache, and the entry the cache had for its address.  *)
(***************************************************************************)

\* env.rateLimitWindow, in time units
RateLimitWindow == 2

\* env.rateLimitMax
RateLimitMax == 2

\* CACHE_TTL.IP_KEY, in time units
IpKeyCacheTtl == 1

LimitMaxTime == 3

LimitMaxReqs == 3

\* req.ip: an IPv4 address, and two IPv6 addresses of one prefix
Addresses ==
    { [kind |-> "ipv4", net |-> "192.0.2.1", host |-> ""],
      [kind |-> "ipv6", net |-> "2001:db8::", host |-> "1"],
      [kind |-> "ipv6", net |-> "2001:db8::", host |-> "2"] }

\* an IPv6 address keeps the bytes of its prefix only
GetIP(address) ==
    IF address.kind = "ipv4" THEN address ELSE [address EXCEPT !.host = ""]

Ips == { GetIP(address) : address \in Addresses }

\* hashHmac(ip, 'rate').toString('base64url')
HashHmac(ip) == <<"rate", ip.net>>

RateKeys == { HashHmac(ip) : ip \in Ips }

NoKey == <<"rate", "">>

NoCachedKey == [present |-> FALSE, key |-> NoKey, expiresAt |-> 0]

\* a keyGenerator that still uses an entry at its expiresAt
KeyGeneratorAtExpiry(ip, cache, t) ==
    IF cache[ip].present /\ t <= cache[ip].expiresAt
    THEN [key |-> cache[ip].key, cache |-> cache, hit |-> TRUE]
    ELSE LET key == HashHmac(ip)
         IN  [key |-> key,
              cache |-> [cache EXCEPT ![ip] =
                            [present |-> TRUE, key |-> key,
                             expiresAt |-> t + IpKeyCacheTtl]],
              hit |-> FALSE]

\* the key of an address, the ipKeyCache the call leaves, and whether the
\* key came from the cache
KeyGenerator(ip, cache, t) ==
    IF cache[ip].present /\ t < cache[ip].expiresAt
    THEN [key |-> cache[ip].key, cache |-> cache, hit |-> TRUE]
    ELSE LET key == HashHmac(ip)
         IN  [key |-> key,
              cache |-> [cache EXCEPT ![ip] =
                            [present |-> TRUE, key |-> key,
                             expiresAt |-> t + IpKeyCacheTtl]],
              hit |-> FALSE]

NoHits == [totalHits |-> 0, resetTime |-> 0]

\* store.increment(key): the hits of the key in its window, a window that
\* starts with the first hit after the previous one ended
StoreIncrement(store, key, t) ==
    IF store[key].totalHits = 0 \/ store[key].resetTime <= t
    THEN [store EXCEPT ![key] =
             [totalHits |-> 1, resetTime |-> t + RateLimitWindow]]
    ELSE [store EXCEPT ![key].totalHits = @ + 1]

UndefinedBody ==
    [defined |-> FALSE, status |-> "", code |-> "", context |-> {}]

\* createResponse("error", { code, context }): an async function, so the
\* call gives a promise of { status, body }
CreateResponse(code, context) ==
    [promise |-> TRUE, status |-> 400,
     body |-> [defined |-> TRUE, status |-> "error", code |-> code,
               context |-> context]]

\* await p
Await(p) == [p EXCEPT !.promise = FALSE]

\* const { body } = x: a promise has no property body
BodyOf(x) == IF x.promise THEN UndefinedBody ELSE x.body

\* fail(res, code): res.status(status).json(body) of the awaited response
Fail(code) ==
    LET response == Await(CreateResponse(code, {}))
    IN  [status |-> response.status, json |-> BodyOf(response),
         next |-> FALSE]

\* a rate-limit handler that goes on to the next middleware
HandleRateExceededNext ==
    [status |-> 429,
     json |-> BodyOf(CreateResponse("error.api.rate_exceeded",
                                    {<<"limit", RateLimitWindow>>})),
     next |-> TRUE]

\* handleRateExceeded: res.status(429).json(body), and no next()
HandleRateExceeded ==
    [status |-> 429,
     json |-> BodyOf(CreateResponse("error.api.rate_exceeded",
                                    {<<"limit", RateLimitWindow>>})),
     next |-> FALSE]

\* next(): no response yet
CallNext == [status |-> NoStatus, json |-> UndefinedBody, next |-> TRUE]

\* apiLimiter: the handler once the hits of the key exceed the limit
ApiLimiter(totalHits) ==
    IF totalHits > RateLimitMax THEN HandleRateExceeded ELSE CallNext

HeaderChecks == {"ok", "accept", "content_type"}

\* the requests of a client that came to the limiter
Limited(ip) ==
    { i \in DOMAIN apiReqs :
        apiReqs[i].ip = ip /\ apiReqs[i].nth > 0 }

\* the window a request of the client at time t falls in, and its number
WindowOf(ip, t) ==
    IF Limited(ip) = {}
    THEN [window |-> t, nth |-> 1]
    ELSE LET last == apiReqs[CHOOSE i \in Limited(ip) :
                                \A j \in Limited(ip) : j <= i]
         IN  IF t < last.window + RateLimitWindow
             THEN [window |-> last.window, nth |-> last.nth + 1]
             ELSE [window |-> t, nth |-> 1]

LimitInit ==
    /\ ipKeyCache = [ip \in Ips |-> NoCachedKey]
    /\ limitStore = [key \in RateKeys |-> NoHits]
    /\ apiReqs = <<>>

\* POST / up to the handler: the check of Accept and Content-Type, then
\* apiLimiter
ApiPost(address, headers) ==
    /\ Len(apiReqs) < LimitMaxReqs
    /\ LET ip == GetIP(address)
           request == [ip |-> ip, at |-> now, reached |-> FALSE]
       IN  IF headers # "ok"
           THEN /\ apiReqs' = Append(apiReqs,
                       request
                       @@ Fail(IF headers = "accept"
                               THEN "error.api.header.accept"
                               ELSE "error.api.header.content_type")
                               @@ [window |-> now, nth |-> 0,
                                   key |-> NoKey, hit |-> FALSE,
                                   entry |-> NoCachedKey])
                /\ UNCHANGED <<ipKeyCache, limitStore,
                   moreVars>>
           ELSE LET generated == KeyGenerator(ip, ipKeyCache, now)
                    store == StoreIncrement(limitStore, generated.key, now)
                IN  /\ ipKeyCache' = generated.cache
                    /\ limitStore' = store
                    /\ apiReqs' = Append(apiReqs,
                           request
                           @@ ApiLimiter(store[generated.key].totalHits)
                           @@ WindowOf(ip, now)
                           @@ [key |-> generated.key,
                               hit |-> generated.hit,
                               entry |-> ipKeyCache[ip]])
    /\ UNCHANGED <<now, deVars, tunnelVars, reqVars, matchVars, lruVars,
                   urlVars, extractVars, proxyVars, dlVars,
                   moreVars>>

\* the POST / handler of a request the chain passed on: it extracts the URL
\* and matches it
ApiHandle(i) ==
    /\ apiReqs[i].next
    /\ ~apiReqs[i].reached
    /\ apiReqs' = [apiReqs EXCEPT ![i].reached = TRUE]
    /\ UNCHANGED <<now, deVars, tunnelVars, reqVars, matchVars, lruVars,
                   urlVars, extractVars, proxyVars, ipKeyCache, limitStore,
                   dlVars,
                   moreVars>>

\* the interval that sweeps ipKeyCache
IpKeyCleanup ==
    /\ \E ip \in Ips : ipKeyCache[ip].present /\ now >= ipKeyCache[ip].expiresAt
    /\ ipKeyCache' = [ip \in Ips |->
                         IF ipKeyCache[ip].present
                            /\ now >= ipKeyCache[ip].expiresAt
                         THEN NoCachedKey ELSE ipKeyCache[ip]]
    /\ UNCHANGED <<now, deVars, tunnelVars, reqVars, matchVars, lruVars,
                   urlVars, extractVars, proxyVars, limitStore, apiReqs,
                   dlVars,
                   moreVars>>

LimitTick ==
    /\ now < LimitMaxTime
    /\ now' = now + 1
    /\ UNCHANGED <<deVars, tunnelVars, reqVars, matchVars, lruVars,
                   urlVars, extractVars, proxyVars, limitVars, dlVars,
                   moreVars>>

-----------------------------------------------------------------------------
(***************************************************************************)
(* Auto-download, createResponse in processing/request.js with             *)
(* downloadFiles of part_006 (util/download-manager.js).  dl holds one     *)
(* call of createResponse: the response it returned, and of the downloads  *)
(* it started the position of downloadFiles (pc), the index i its batch    *)
(* starts at, the files whose downloadFile call is pending (inflight), the *)
(* files whose result was a 429 (limited), the time left of the delay      *)
(* between two batches and the time waited, and the retries of the         *)
(* rate-limited files that were started and that are pending.  Time is in  *)
(* units of 500 ms.                                                        *)
(***************************************************************************)

\* filesToDownload.length > 20
LargePicker == 20

MaxSmallPicker == 4

\* how many files of a picker the upstream answers with a 429
MaxRateLimited == 3

PickerSizes == 0..MaxSmallPicker \cup {LargePicker + 1}

DownloadServices == {"tiktok", "youtube"}

ResponseTypes == {"picker", "redirect"}

\* what downloadFile gives: a result that is a success, a 429 or another
\* failure, or a rejection
DownloadResults == {"ok", "429", "error", "threw"}

NotReturned == [status |-> NoStatus, body |-> [status |-> "", count |-> 0]]

IdleDownload ==
    [pc |-> "idle", type |-> "", service |-> "", autoDownload |-> FALSE,
     n |-> 0, concurrency |-> 0, i |-> 0, inflight |-> {}, limited |-> {},
     delayLeft |-> 0, waited |-> 0, started |-> {}, retrying |-> {},
     response |-> NotReturned]

DownloadInit == dl = IdleDownload

\* const concurrency = filesToDownload.length > 20 ? 2 : 3
Concurrency(n) == IF n > LargePicker THEN 2 ELSE 3

\* the delay between two batches: 1 s for TikTok, 500 ms for the others
BatchDelay(service) == IF service = "tiktok" THEN 2 ELSE 1

\* files.slice(i, i + concurrency), as the indices of the files
Batch(i, concurrency, n) ==
    { f \in 1..n : i < f /\ f <= i + concurrency }

\* status and body of a picker of n items, or of a redirect
ResponseOf(type, n) ==
    [status |-> 200,
     body |-> [status |-> type,
               count |-> IF type = "picker" THEN n ELSE 0]]

\* a createResponse that returns once no download is pending
ReturnAfterDownloads(d) ==
    IF d.inflight = {}
    THEN [d EXCEPT !.response = ResponseOf(d.type, d.n)]
    ELSE d

\* return { status, body: responseBody }
Return(d) == [d EXCEPT !.response = ResponseOf(d.type, d.n)]

\* the then handler of downloadFiles: the rate-limited files get a timer
ThenHandler(d) ==
    IF d.limited # {} THEN [d EXCEPT !.pc = "retrying"]
    ELSE [d EXCEPT !.pc = "done"]

\* createResponse(responseType, responseData) for a picker of n items with
\* a URL and a file name, or for a redirect: with autoDownload it calls
\* downloadFiles, which starts its first batch, or downloadFile, and
\* returns
CreateResponseCall(type, n, service, autoDownload) ==
    /\ dl.pc = "idle"
    /\ type = "redirect" => n = 1
    /\ LET called == [dl EXCEPT !.type = type, !.service = service,
                                !.autoDownload = autoDownload, !.n = n]
           started ==
               IF ~autoDownload \/ n = 0
               THEN [called EXCEPT !.pc = "done"]
               ELSE IF type = "picker"
               THEN [called EXCEPT
                        !.pc = "running",
                        !.concurrency = Concurrency(n),
                        !.inflight = Batch(0, Concurrency(n), n)]
               ELSE [called EXCEPT !.pc = "single", !.concurrency = 1,
                                   !.inflight = {1}]
       IN  dl' = Return(started)
    /\ UNCHANGED <<now, deVars, tunnelVars, reqVars, matchVars, lruVars,
                   urlVars, extractVars, proxyVars, limitVars, df,
                   moreVars>>

\* the downloadFile call of a file settles.  In downloadFiles the batch is
\* awaited with Promise.all: a rejection ends downloadFiles at once, the
\* last result of the batch starts the delay or ends the loop
DownloadSettles(f, result) ==
    /\ f \in dl.inflight
    /\ result = "429" => Cardinality(dl.limited) < MaxRateLimited
    /\ LET settled == [dl EXCEPT !.inflight = @ \ {f}]
       IN  dl' =
             IF dl.pc = "single" THEN [settled EXCEPT !.pc = "done"]
             ELSE IF dl.pc # "running" THEN settled
             ELSE IF result = "threw" THEN [settled EXCEPT !.pc = "failed"]
             ELSE LET noted ==
                          IF result = "429"
                          THEN [settled EXCEPT !.limited = @ \cup {f}]
                          ELSE settled
                  IN  IF noted.inflight # {} THEN noted
                      ELSE IF dl.i + dl.concurrency < dl.n
                      THEN [noted EXCEPT
                               !.pc = "delaying",
                               !.delayLeft = BatchDelay(dl.service),
                               !.waited = 0]
                      ELSE ThenHandler(noted)
    /\ UNCHANGED <<now, deVars, tunnelVars, reqVars, matchVars, lruVars,
                   urlVars, extractVars, proxyVars, limitVars, df,
                   moreVars>>

\* time passes during the delay between two batches
DelayTick ==
    /\ dl.pc = "delaying"
    /\ dl.delayLeft > 0
    /\ dl' = [dl EXCEPT !.delayLeft = @ - 1, !.waited = @ + 1]
    /\ UNCHANGED <<now, deVars, tunnelVars, reqVars, matchVars, lruVars,
                   urlVars, extractVars, proxyVars, limitVars, df,
                   moreVars>>

\* the delay is over: the loop of downloadFiles starts the next batch
NextBatch ==
    /\ dl.pc = "delaying"
    /\ dl.delayLeft = 0
    /\ dl' = [dl EXCEPT
                 !.pc = "running",
                 !.i = @ + dl.concurrency,
                 !.inflight = Batch(dl.i + dl.concurrency, dl.concurrency,
                                    dl.n)]
    /\ UNCHANGED <<now, deVars, tunnelVars, reqVars, matchVars, lruVars,
                   urlVars, extractVars, proxyVars, limitVars, df,
                   moreVars>>

\* the timer of a rate-limited file fires, 10 s + 200 ms per index after
\* the then handler ran, so in the order of the indices: its downloadFile
\* call starts, whatever the state of the retries before it (a download
\* may take up to its timeout of 2 minutes per attempt)
RetryStarts ==
    /\ dl.pc = "retrying"
    /\ dl.limited # dl.started
    /\ LET f == CHOOSE g \in dl.limited \ dl.started :
                    \A h \in dl.limited \ dl.started : g <= h
       IN  dl' = [dl EXCEPT !.started = @ \cup {f},
                            !.retrying = @ \cup {f}]
    /\ UNCHANGED <<now, deVars, tunnelVars, reqVars, matchVars, lruVars,
                   urlVars, extractVars, proxyVars, limitVars, df,
                   moreVars>>

\* the downloadFile call of a retry settles
RetrySettles(f) ==
    /\ f \in dl.retrying
    /\ LET settled == [dl EXCEPT !.retrying = @ \ {f}]
       IN  dl' = IF settled.retrying = {} /\ dl.started = dl.limited
                 THEN [settled EXCEPT !.pc = "done"]
                 ELSE settled
    /\ UNCHANGED <<now, deVars, tunnelVars, reqVars, matchVars, lruVars,
                   urlVars, extractVars, proxyVars, limitVars, df,
                   moreVars>>

-----------------------------------------------------------------------------
(***************************************************************************)
(* downloadFile, part_006 (util/download-manager.js).  df holds one call:  *)
(* its options, the attempt counter of its loop, the delays it has waited  *)
(* before its retries, in the order it waited them, the number of          *)
(* downloadFileAttempt calls it has made, and its result.                  *)
(***************************************************************************)

MaxRetries == 3

\* retryDelay, in units of 500 ms: the default of 2 s and the 5 s of the
\* retries of rate-limited files
RetryDelays == {4, 10}

\* the result of downloadFileAttempt: a success, or the error of the
\* response status or of the network
AttemptResults == {"ok", "403", "404", "429", "error"}

\* fetchTikTokVideoUrl and the attempt with its URL: no other URL, or
\* another URL and the result of its attempt
FreshResults == {"none", "ok", "failed"}

IdleDownloadFile ==
    [pc |-> "idle", maxRetries |-> 0, retryDelay |-> 0, service |-> "",
     videoId |-> FALSE, attempt |-> 0, delays |-> <<>>, success |-> FALSE,
     attempts |-> 0]

DownloadFileInit == df = IdleDownloadFile

\* const delay = retryDelay * (attempt + 1)
RetryDelay(retryDelay, attempt) == retryDelay * (attempt + 1)

\* return of the call
DownloadFileReturns(d, success) ==
    [d EXCEPT !.pc = "returned", !.success = success]

\* attempt++ and the test of the loop
NextAttempt(d) ==
    IF d.attempt + 1 <= d.maxRetries
    THEN [d EXCEPT !.pc = "attempting", !.attempt = @ + 1]
    ELSE DownloadFileReturns([d EXCEPT !.attempt = @ + 1], FALSE)

\* downloadFile(url, filename, { maxRetries, retryDelay, service, videoId })
DownloadFileCall(maxRetries, retryDelay, service, videoId) ==
    /\ df.pc = "idle"
    /\ df' = [df EXCEPT !.pc = "attempting", !.maxRetries = maxRetries,
                        !.retryDelay = retryDelay, !.service = service,
                        !.videoId = videoId]
    /\ UNCHANGED <<now, deVars, tunnelVars, reqVars, matchVars, lruVars,
                   urlVars, extractVars, proxyVars, limitVars, dl,
                   moreVars>>

\* await downloadFileAttempt(...): one more download attempt
Attempted(d) == [d EXCEPT !.attempts = @ + 1]

\* one pass of the loop up to its delay: the attempt, for a 404 or 403 of
\* TikTok the attempt with a fresh URL, the return of a 403 that is not
\* retried, and the delay before the next attempt
AttemptSettles(result, fresh) ==
    /\ df.pc = "attempting"
    /\ LET refetches == /\ result \in {"404", "403"}
                        /\ df.service = "tiktok" /\ df.videoId
       IN  df' =
             IF result = "ok"
             THEN DownloadFileReturns(Attempted(df), TRUE)
             ELSE IF refetches /\ fresh = "ok"
             THEN DownloadFileReturns(Attempted(Attempted(df)), TRUE)
             ELSE IF refetches /\ fresh = "failed"
             THEN NextAttempt(Attempted(Attempted(df)))
             ELSE IF result = "403" /\ ~refetches
             THEN DownloadFileReturns(Attempted(df), FALSE)
             ELSE IF df.attempt < df.maxRetries
             THEN [Attempted(df) EXCEPT
                      !.pc = "waiting",
                      !.delays = Append(@, RetryDelay(df.retryDelay,
                                                      df.attempt))]
             ELSE NextAttempt(Attempted(df))
    /\ UNCHANGED <<now, deVars, tunnelVars, reqVars, matchVars, lruVars,
                   urlVars, extractVars, proxyVars, limitVars, dl,
                   moreVars>>

\* the delay is over: the next pass of the loop
RetryWaitOver ==
    /\ df.pc = "waiting"
    /\ df' = NextAttempt(df)
    /\ UNCHANGED <<now, deVars, tunnelVars, reqVars, matchVars, lruVars,
                   urlVars, extractVars, proxyVars, limitVars, dl,
                   moreVars>>

-----------------------------------------------------------------------------
(***************************************************************************)
(* The POST / handler under requestTimeout with the effects of match():    *)
(* part_007, shared.js:558-647, part_004:196-378 and createResponse.       *)
(* posts holds per request the state of the response as in reqs, whether   *)
(* the metadata cache had an entry when match() read it, and the effects   *)
(* of the part of match() that runs after the resolver returned: the       *)
(* metadataCache.set, the createStream call of a tunnel response and the   *)
(* start of an auto-download, each with whether the response of the        *)
(* request had gone out before.                                            *)
(***************************************************************************)

\* what matchAction makes of the result of the resolver: an error response,
\* or a response of one of the types
ResolvedTypes == {"error", "redirect", "tunnel", "picker"}

NoEffect == [done |-> FALSE, late |-> FALSE]

IdlePost ==
    [pc |-> "idle", autoDownload |-> FALSE, cacheHit |-> FALSE,
     headersSent |-> FALSE, timerArmed |-> FALSE, deadline |-> NoDeadline,
     responses |-> <<>>, cached |-> NoEffect, stream |-> NoEffect,
     download |-> NoEffect]

PostsInit == posts = [i \in ReqIds |-> IdlePost]

\* an effect, done on behalf of a request in state r
Effect(r) == [done |-> TRUE, late |-> r.headersSent]

\* part_004:283-378 and request.js:10-440, match() from the return of the
\* resolver: the metadata of a result without error is cached unless the
\* cache had it, matchAction and createResponse build the response, with
\* createStream for a tunnel and with the start of the downloads for
\* autoDownload
AfterResolver(r, type) ==
    LET cached == IF type # "error" /\ ~r.cacheHit
                  THEN [r EXCEPT !.cached = Effect(r)] ELSE r
        streamed == IF type = "tunnel"
                    THEN [cached EXCEPT !.stream = Effect(r)]
                    ELSE cached
    IN  IF type # "error" /\ r.autoDownload
        THEN [streamed EXCEPT !.download = Effect(r)]
        ELSE streamed

\* part_007:19-50 and shared.js:558-624, part_004:196-283: the timer is
\* armed, the request passes its checks, match() reads the metadata cache
\* and awaits the resolver
PostArrives(i, autoDownload, cacheHit) ==
    /\ posts[i].pc = "idle"
    /\ posts' = [posts EXCEPT ![i] =
                    [@ EXCEPT !.pc = "awaitHandler",
                              !.autoDownload = autoDownload,
                              !.cacheHit = cacheHit,
                              !.timerArmed = TRUE,
                              !.deadline = now + TimeoutMs]]
    /\ UNCHANGED <<now, baseVars, keyCall, share, breaker>>

\* the resolver returns: the rest of match() runs and the handler sends its
\* result unless a response went out (shared.js:626-635)
ResolverReturns(i, type) ==
    /\ posts[i].pc = "awaitHandler"
    /\ posts' = [posts EXCEPT ![i] =
                    [SendResult(AfterResolver(@, type),
                                IF type = "error" THEN 400 ELSE 200)
                        EXCEPT !.pc = "done"]]
    /\ UNCHANGED <<now, baseVars, keyCall, share, breaker>>

\* the timer of request i expires
PostTimerFires(i) ==
    /\ posts[i].timerArmed
    /\ now >= posts[i].deadline
    /\ posts' = [posts EXCEPT ![i] = TimeoutCallback(@)]
    /\ UNCHANGED <<now, baseVars, keyCall, share, breaker>>

PostTick ==
    /\ now < MaxTime
    /\ \A i \in ReqIds : posts[i].timerArmed => now < posts[i].deadline
    /\ now' = now + 1
    /\ UNCHANGED <<baseVars, moreVars>>

-----------------------------------------------------------------------------
(***************************************************************************)
(* The circuit breaker, util/config-validator.js (createCircuitBreaker).   *)
(* breaker is a record [state, failures, nextAttempt, calls] with the      *)
(* three variables of the closure and, for every call of execute, where it *)
(* stands, what it found and what it left.                                 *)
(***************************************************************************)

\* options.failureThreshold
FailureThreshold == 2

\* options.resetTimeout
ResetTimeout == 2

\* options.monitoringWindow
MonitoringWindow == 2

\* the calls of execute
MaxExecutes == 4

\* the time up to which the breaker is watched
BreakerMaxTime == 3

ExecuteIds == 1..MaxExecutes

\* config-validator.js:163-167, STATES
CLOSED == "closed"
OPEN == "open"
HALF_OPEN == "half_open"

IdleExecute ==
    [pc |-> "idle", at |-> 0, found |-> CLOSED, due |-> 0, invoked |-> FALSE,
     entered |-> CLOSED, outcome |-> None, settledIn |-> CLOSED,
     settledAt |-> 0, left |-> CLOSED, leftDue |-> 0]

BreakerInit ==
    breaker = [state |-> CLOSED, failures |-> <<>>, nextAttempt |-> 0,
               calls |-> [c \in ExecuteIds |-> IdleExecute]]

\* config-validator.js:198, 232: failures.filter(time => now - time <
\* monitoringWindow)
RecentFailures(failures, t) ==
    SelectSeq(failures, LAMBDA time : t - time < MonitoringWindow)

\* config-validator.js:194-217, recordFailure
RecordFailure(b, t) ==
    LET failures == Append(RecentFailures(b.failures, t), t)
    IN  IF Len(failures) >= FailureThreshold /\ b.state = CLOSED
        THEN [b EXCEPT !.failures = failures, !.state = OPEN,
                       !.nextAttempt = t + ResetTimeout]
        ELSE [b EXCEPT !.failures = failures]

\* config-validator.js:222-236, recordSuccess
RecordSuccess(b, t) ==
    IF b.state = HALF_OPEN
    THEN [b EXCEPT !.state = CLOSED, !.failures = <<>>]
    ELSE IF b.state = CLOSED
    THEN [b EXCEPT !.failures = RecentFailures(b.failures, t)]
    ELSE b

\* a cooldown that still holds at nextAttempt
InCooldownAtDue(b, t) == b.state = OPEN /\ t <= b.nextAttempt

\* config-validator.js:248-249: the circuit is open and now < nextAttempt
InCooldown(b, t) == b.state = OPEN /\ t < b.nextAttempt

\* config-validator.js:244-265, execute up to the call of fn: in the
\* cooldown it throws CIRCUIT_BREAKER_OPEN, after it an open breaker
\* becomes half-open, and fn is called
Execute(c) ==
    /\ breaker.calls[c].pc = "idle"
    /\ \A b \in ExecuteIds : b < c => breaker.calls[b].pc # "idle"
    /\ LET found == [breaker.calls[c] EXCEPT
                        !.at = now, !.found = breaker.state,
                        !.due = breaker.nextAttempt]
       IN  IF InCooldown(breaker, now)
           THEN breaker' = [breaker EXCEPT !.calls[c] =
                               [found EXCEPT
                                   !.pc = "done",
                                   !.entered = breaker.state,
                                   !.outcome = "CIRCUIT_BREAKER_OPEN"]]
           ELSE LET state == IF breaker.state = OPEN THEN HALF_OPEN
                             ELSE breaker.state
                IN  breaker' = [breaker EXCEPT
                                   !.state = state,
                                   !.calls[c] =
                                       [found EXCEPT !.pc = "running",
                                                     !.invoked = TRUE,
                                                     !.entered = state]]
    /\ UNCHANGED <<now, baseVars, posts, keyCall, share>>

\* config-validator.js:267-274: fn settles; its result is returned after
\* recordSuccess, its error thrown on after recordFailure
FnSettles(c, ok) ==
    /\ breaker.calls[c].pc = "running"
    /\ LET b == IF ok THEN RecordSuccess(breaker, now)
                ELSE RecordFailure(breaker, now)
       IN  breaker' = [b EXCEPT !.calls[c] =
                          [@ EXCEPT !.pc = "done",
                                    !.outcome = IF ok THEN "result"
                                                ELSE "error",
                                    !.settledIn = breaker.state,
                                    !.settledAt = now,
                                    !.left = b.state,
                                    !.leftDue = b.nextAttempt]]
    /\ UNCHANGED <<now, baseVars, posts, keyCall, share>>

\* time passes
BreakerTick ==
    /\ now < BreakerMaxTime
    /\ now' = now + 1
    /\ UNCHANGED <<baseVars, moreVars>>

-----------------------------------------------------------------------------
(***************************************************************************)
(* The objects the metadata cache and the decision engine share, part_004  *)
(* (match.js) and processing/match-action.js.  share is a record           *)
(*   [heap, entry, calls]                                                  *)
(* where heap is the sequence of the fileMetadata objects the service      *)
(* handler has created (an address is an index of it, NoObject stands for  *)
(* undefined), entry is the metadata-cache entry of the one cache key the  *)
(* calls are for, holding the address of its fileMetadata, and calls holds *)
(* for every call of match the cached metadata it read and the value of    *)
(* the cache entry before and after matchAction ran for it.                *)
(***************************************************************************)

\* the calls of match
MaxShareCalls == 3

ShareCallIds == 1..MaxShareCalls

NoObject == 0

\* fileMetadata.sublanguage: absent, or a language code
NoSublanguage == [has |-> FALSE, code |-> ""]

Sublanguage(code) == [has |-> TRUE, code |-> code]

\* the sublanguage of the fileMetadata a service handler returns: none, a
\* two-letter code, a three-letter code
HandlerSublanguages == {NoSublanguage, Sublanguage("en"), Sublanguage("eng")}

\* the results of convertLanguageCode: a three-letter code, or nothing
ConvertedCodes == {"eng", ""}

NoShareEntry == [present |-> FALSE, fileMetadata |-> NoObject]

\* the value of a cache entry: whether it is there, whether it has a
\* fileMetadata, and the sublanguage of that
NoEntryValue ==
    [present |-> FALSE, fileMetadata |-> FALSE, sublanguage |-> NoSublanguage]

EntryValue(heap, entry) ==
    IF ~entry.present THEN NoEntryValue
    ELSE IF entry.fileMetadata = NoObject
    THEN [NoEntryValue EXCEPT !.present = TRUE]
    ELSE [present |-> TRUE, fileMetadata |-> TRUE,
          sublanguage |-> heap[entry.fileMetadata]]

IdleShareCall ==
    [pc |-> "idle", cached |-> NoShareEntry, decided |-> FALSE,
     stored |-> NoEntryValue, left |-> NoEntryValue]

ShareInit ==
    share = [heap |-> <<>>, entry |-> NoShareEntry,
             calls |-> [c \in ShareCallIds |-> IdleShareCall]]

\* match-action.js:733-745: the sublanguage of defaultParams.fileMetadata,
\* when it is there and not three characters long, is replaced by the
\* converted code, or deleted when there is none; the object is changed in
\* place
ConvertSublanguage(heap, fileMetadata, code) ==
    IF fileMetadata = NoObject THEN heap
    ELSE IF ~heap[fileMetadata].has THEN heap
    ELSE IF Len(heap[fileMetadata].code) = 3 THEN heap
    ELSE IF code # ""
    THEN [heap EXCEPT ![fileMetadata] = Sublanguage(code)]
    ELSE [heap EXCEPT ![fileMetadata] = NoSublanguage]

\* part_004:93-108, createCacheableMetadata: { ...response } copies the
\* reference to fileMetadata
ShareCacheable(fileMetadata) ==
    [present |-> TRUE, fileMetadata |-> fileMetadata]

\* part_004:117-128, mergeCachedMetadata: { ...cached, ... } takes the
\* reference to fileMetadata from the cached object
ShareMerged(cached) == cached.fileMetadata

\* part_004:244-245: match reads the metadata cache and then awaits the
\* service handler
ShareBegin(c) ==
    /\ share.calls[c].pc = "idle"
    /\ \A b \in ShareCallIds : b < c => share.calls[b].pc # "idle"
    /\ share' = [share EXCEPT !.calls[c] =
                    [@ EXCEPT !.pc = "awaitHandler", !.cached = share.entry]]
    /\ UNCHANGED <<now, baseVars, posts, keyCall, breaker>>

\* part_004:283-376 and match-action.js:65-745: the handler returns r with
\* a new fileMetadata object (or none); cached metadata is merged with it or
\* its metadata is cached; unless r is an error, matchAction runs on r, and
\* unless it returns an error first it converts the sublanguage of
\* defaultParams.fileMetadata, which is r.fileMetadata unless
\* disableMetadata is set
ShareHandlerReturns(c, has, sub, error, disableMetadata, early, code) ==
    /\ share.calls[c].pc = "awaitHandler"
    /\ LET cached  == share.calls[c].cached
           heap1   == IF has THEN Append(share.heap, sub)
                      ELSE share.heap
           fresh   == IF has THEN Len(heap1) ELSE NoObject
           merges  == cached.present /\ ~error
           caches  == ~cached.present /\ ~error
           r       == IF merges THEN ShareMerged(cached) ELSE fresh
           entry1  == IF caches THEN ShareCacheable(fresh) ELSE share.entry
           \* the cache entry of the request: the one read, or the one set
           served  == IF merges THEN cached ELSE entry1
           params  == IF disableMetadata THEN NoObject ELSE r
           heap2   == IF error \/ early THEN heap1
                      ELSE ConvertSublanguage(heap1, params, code)
       IN  share' = [share EXCEPT
                        !.heap = heap2,
                        !.entry = entry1,
                        !.calls[c] =
                            [@ EXCEPT !.pc = "done",
                                      !.decided = ~error,
                                      !.stored = EntryValue(heap1, served),
                                      !.left = EntryValue(heap2, served)]]
    /\ UNCHANGED <<now, baseVars, posts, keyCall, breaker>>

\* lru-cache.js:46-51, 140-164: the entry expires or is evicted
ShareEntryDropped ==
    /\ share.entry.present
    /\ \E c \in ShareCallIds : share.calls[c].pc = "idle"
    /\ share' = [share EXCEPT !.entry = NoShareEntry]
    /\ UNCHANGED <<now, baseVars, posts, keyCall, breaker>>

-----------------------------------------------------------------------------
(***************************************************************************)
(* generateCacheKey, part_004:60-83, on request parameters by name.  A     *)
(* value is a record [type, v] of type "string", "boolean" or "undefined"; *)
(* an object is a function from its property names to values, and its      *)
(* JSON text is the sequence of the <<name, value>> pairs that are not     *)
(* undefined, in the order the properties were created.                    *)
(***************************************************************************)

\* how many parameters of a request differ from their defaults
MaxChanged == 1

Str(v) == [type |-> "string", v |-> v]
Bool(v) == [type |-> "boolean", v |-> IF v THEN "true" ELSE "false"]
UndefinedValue == [type |-> "undefined", v |-> ""]

\* the properties of relevantParams, in their order, without subtitleLang
RelevantParamsNoSubtitleLang ==
    <<"videoQuality", "downloadMode", "audioFormat", "youtubeVideoCodec",
      "youtubeVideoContainer", "youtubeDubLang",
      "tiktokFullAudio", "allowH265", "convertGif", "youtubeHLS",
      "youtubeBetterAudio">>

\* part_004:63-76, the properties of relevantParams, in their order
RelevantParams ==
    <<"videoQuality", "downloadMode", "audioFormat", "youtubeVideoCodec",
      "youtubeVideoContainer", "youtubeDubLang", "subtitleLang",
      "tiktokFullAudio", "allowH265", "convertGif", "youtubeHLS",
      "youtubeBetterAudio">>

\* the parameters that say how the result is delivered
DeliveryParams ==
    {"alwaysProxy", "localProcessing", "disableMetadata", "filenameStyle",
     "audioBitrate", "autoDownload"}

\* the parameters that shape the content
ContentParams ==
    {"videoQuality", "youtubeVideoCodec", "youtubeVideoContainer",
     "audioFormat", "youtubeDubLang", "subtitleLang", "downloadMode"}

\* the parameters of a request
ParamNames ==
    ContentParams \cup DeliveryParams
    \cup {"tiktokFullAudio", "allowH265", "convertGif", "youtubeHLS",
          "youtubeBetterAudio"}

\* the value a parameter has when the request does not set it
DefaultParam(name) ==
    CASE name = "videoQuality" -> Str("1080")
      [] name = "downloadMode" -> Str("auto")
      [] name = "audioFormat" -> Str("mp3")
      [] name = "youtubeVideoCodec" -> Str("h264")
      [] name = "youtubeVideoContainer" -> Str("auto")
      [] name \in {"youtubeDubLang", "subtitleLang"} -> UndefinedValue
      [] name = "localProcessing" -> Str("disabled")
      [] name = "filenameStyle" -> Str("basic")
      [] name = "audioBitrate" -> Str("128")
      [] OTHER -> Bool(FALSE)

\* another value of the parameter
OtherParam(name) ==
    CASE name = "videoQuality" -> Str("720")
      [] name = "downloadMode" -> Str("audio")
      [] name = "audioFormat" -> Str("opus")
      [] name = "youtubeVideoCodec" -> Str("av1")
      [] name = "youtubeVideoContainer" -> Str("webm")
      [] name \in {"youtubeDubLang", "subtitleLang"} -> Str("en")
      [] name = "localProcessing" -> Str("forced")
      [] name = "filenameStyle" -> Str("pretty")
      [] name = "audioBitrate" -> Str("320")
      [] OTHER -> Bool(TRUE)

\* the parameters of a request that changes the given ones
ParamsWith(changed) ==
    [name \in ParamNames |->
        IF name \in changed THEN OtherParam(name) ELSE DefaultParam(name)]

KeyParams ==
    { ParamsWith(changed) :
        changed \in {c \in SUBSET ParamNames : Cardinality(c) <= MaxChanged} }

KeyPatternMatches == { <<<<"id", Str("a")>>>>, <<<<"id", Str("b")>>>> }

\* JSON.stringify of the object with the given properties of params
RECURSIVE JsonStringify(_, _)
JsonStringify(names, params) ==
    IF names = <<>> THEN <<>>
    ELSE LET name == Head(names)
             rest == JsonStringify(Tail(names), params)
         IN  IF params[name].type = "undefined" THEN rest
             ELSE <<<<name, params[name]>>>> \o rest

\* part_004:60-83, generateCacheKey: `${host}:${patternStr}:${paramsStr}`
GenerateCacheKeyString(host, patternMatch, params) ==
    <<host, patternMatch, JsonStringify(RelevantParams, params)>>

NoKeyCall ==
    [called |-> FALSE, host |-> <<"", "">>,
     patternMatch |-> <<<<<<"id", Str("a")>>>>, <<<<"id", Str("a")>>>>>>,
     params |-> <<ParamsWith({}), ParamsWith({})>>,
     key |-> <<<<>>, <<>>>>]

KeyCallInit == keyCall = NoKeyCall

\* part_004:244: two requests come to generateCacheKey
GenerateCacheKeys(hosts, patternMatches, params) ==
    /\ ~keyCall.called
    /\ keyCall' =
          [called |-> TRUE, host |-> hosts,
           patternMatch |-> patternMatches, params |-> params,
           key |-> <<GenerateCacheKeyString(hosts[1], patternMatches[1],
                                            params[1]),
                     GenerateCacheKeyString(hosts[2], patternMatches[2],
                                            params[2])>>]
    /\ UNCHANGED <<now, baseVars, posts, share, breaker>>

-----------------------------------------------------------------------------
(***************************************************************************)
(* Specifications                                                          *)
(***************************************************************************)

\* a specification leaves the variables of the other subsystems alone
Init ==
    /\ now = 0
    /\ DecideInit
    /\ TunnelInit
    /\ TimeoutInit
    /\ MatchInit
    /\ LruInit
    /\ UrlInit(IdleUrl)
    /\ env = [official |-> FALSE]
    /\ ExtractInit
    /\ ProxyInit
    /\ LimitInit
    /\ DownloadInit
    /\ DownloadFileInit
    /\ PostsInit
    /\ KeyCallInit
    /\ ShareInit
    /\ BreakerInit

NextDecide == Decide \/ DecideDone

SpecDecide == Init /\ [][NextDecide]_vars

NextTunnel ==
    \/ CreateTunnelResponse
    \/ TunnelGet
    \/ TunnelGetMalformed
    \/ StoreSweep
    \/ TunnelDone
    \/ TunnelTick

SpecTunnel == Init /\ [][NextTunnel]_vars

NextTimeout ==
    \/ \E i \in ReqIds :
          \/ Arrive(i)
          \/ ValidateFails(i)
          \/ ValidateOk(i)
          \/ MatchReturns(i)
          \/ MatchThrows(i)
          \/ FailResume(i)
          \/ TimerFires(i)
    \/ TimerTick

SpecTimeout == Init /\ [][NextTimeout]_vars

NextMatch ==
    \/ \E c \in CallIds :
          \/ MatchRejects(c)
          \/ MatchBegin(c)
          \/ HandlerReturns(c)
          \/ HandlerThrows(c)
    \/ MatchTick

SpecMatch == Init /\ [][NextMatch]_vars

NextLru ==
    \/ LruConstruct
    \/ \E k \in LruKeys :
          \/ \E ttl \in {NoTtl, LruTtl} : LruDoSet(k, ttl)
          \/ LruDoGet(k)
          \/ LruDoHas(k)
          \/ LruDoDelete(k)
    \/ LruDoCleanup
    \/ LruTick

SpecLru == Init /\ [][NextLru]_vars

\* a client of normalizeURL with any of the URL strings
InitUrl ==
    /\ now = 0
    /\ DecideInit
    /\ TunnelInit
    /\ TimeoutInit
    /\ MatchInit
    /\ LruInit
    /\ \E s \in UrlInputs : UrlInit(s)
    /\ env = [official |-> FALSE]
    /\ ExtractInit
    /\ ProxyInit
    /\ LimitInit
    /\ DownloadInit
    /\ DownloadFileInit
    /\ PostsInit
    /\ KeyCallInit
    /\ ShareInit
    /\ BreakerInit

NextUrl ==
    \/ NormalizeInput
    \/ NormalizeResult
    \/ UrlCleanup
    \/ UrlTick

SpecUrl == InitUrl /\ [][NextUrl]_vars

\* clients of extract on an instance with any env.apiURL
InitExtract ==
    /\ now = 0
    /\ DecideInit
    /\ TunnelInit
    /\ TimeoutInit
    /\ MatchInit
    /\ LruInit
    /\ UrlInit(IdleUrl)
    /\ env \in [official : BOOLEAN]
    /\ ExtractInit
    /\ ProxyInit
    /\ LimitInit
    /\ DownloadInit
    /\ DownloadFileInit
    /\ PostsInit
    /\ KeyCallInit
    /\ ShareInit
    /\ BreakerInit

\* callers that leave the objects they get alone
NextExtract ==
    \/ \E enabledServices \in ServiceSets :
          \/ \E url \in ExtractUrls : Extract(url, enabledServices)
          \/ \E s \in ExtractStrings : ExtractString(s, enabledServices)
    \/ NormalizeNotAUrl
    \/ ExtractCleanup
    \/ ExtractTick

SpecExtract == InitExtract /\ [][NextExtract]_vars

\* callers that may change the objects they get
NextExtractCaller ==
    \/ \E enabledServices \in ServiceSets, url \in ExtractUrls :
          Extract(url, enabledServices)
    \/ MutateResult
    \/ MutatePatternMatch
    \/ ExtractCleanup
    \/ ExtractTick

SpecExtractCaller == InitExtract /\ [][NextExtractCaller]_vars

\* request() resolves or rejects
RequestSettles ==
    \/ \E statusCode \in UpstreamStatusCodes : RequestResolves(statusCode)
    \/ RequestRejects

NextProxy ==
    \/ ProxyStart
    \/ RequestSettles
    \/ BodyData
    \/ ClientErrors
    \/ ClientCloses
    \/ UpstreamErrors
    \/ UpstreamCloses

\* the handler runs and request() settles; what the client and the
\* upstream do is up to them
SpecProxy == Init /\ [][NextProxy]_vars /\ WF_vars(RequestSettles)

NextLimit ==
    \/ \E address \in Addresses, headers \in HeaderChecks :
          ApiPost(address, headers)
    \/ \E i \in DOMAIN apiReqs : ApiHandle(i)
    \/ IpKeyCleanup
    \/ LimitTick

SpecLimit == Init /\ [][NextLimit]_vars

NextDownload ==
    \/ \E type \in ResponseTypes, n \in PickerSizes,
          service \in DownloadServices, autoDownload \in BOOLEAN :
          CreateResponseCall(type, n, service, autoDownload)
    \/ \E f \in dl.inflight, result \in DownloadResults :
          DownloadSettles(f, result)
    \/ DelayTick
    \/ NextBatch
    \/ RetryStarts
    \/ \E f \in dl.retrying : RetrySettles(f)

SpecDownload == Init /\ [][NextDownload]_vars

NextDownloadFile ==
    \/ \E maxRetries \in 0..MaxRetries, retryDelay \in RetryDelays,
          service \in DownloadServices, videoId \in BOOLEAN :
          DownloadFileCall(maxRetries, retryDelay, service, videoId)
    \/ \E result \in AttemptResults, fresh \in FreshResults :
          AttemptSettles(result, fresh)
    \/ RetryWaitOver

SpecDownloadFile == Init /\ [][NextDownloadFile]_vars

NextPost ==
    \/ \E i \in ReqIds :
          \/ \E autoDownload, cacheHit \in BOOLEAN :
                PostArrives(i, autoDownload, cacheHit)
          \/ \E type \in ResolvedTypes : ResolverReturns(i, type)
          \/ PostTimerFires(i)
    \/ PostTick

SpecPost == Init /\ [][NextPost]_vars

NextShare ==
    \/ \E c \in ShareCallIds : ShareBegin(c)
    \/ \E c \in ShareCallIds :
          /\ share.calls[c].pc = "awaitHandler"
          /\ \E hasMetadata, error, disableMetadata, early \in BOOLEAN,
                sublanguage \in HandlerSublanguages,
                code \in ConvertedCodes :
                /\ ~hasMetadata => sublanguage = NoSublanguage
                /\ ShareHandlerReturns(c, hasMetadata, sublanguage, error,
                                       disableMetadata, early, code)
    \/ ShareEntryDropped

SpecShare == Init /\ [][NextShare]_vars

NextBreaker ==
    \/ \E c \in ExecuteIds : Execute(c)
    \/ \E c \in ExecuteIds, ok \in BOOLEAN : FnSettles(c, ok)
    \/ BreakerTick

SpecBreaker == Init /\ [][NextBreaker]_vars

NextKey ==
    /\ ~keyCall.called
    /\ \E hosts \in {"youtube"} \X {"youtube", "twitter"},
          patternMatches \in {<<<<"id", Str("a")>>>>} \X KeyPatternMatches,
          params \in KeyParams \X KeyParams :
          GenerateCacheKeys(hosts, patternMatches, params)

SpecKey == Init /\ [][NextKey]_vars

-----------------------------------------------------------------------------
(***************************************************************************)
(* Properties                                                              *)
(***************************************************************************)

Decided == deOut # NoDecision

\* C1: the decision engine chooses the action by the first matching rule in
\* the order photo (isPhoto), picker (picker present), gif (isGif and
\* convertGif), audio (audio-only requested), muteVideo (mute requested),
\* hls (isHLS), otherwise video.
ActionPriorityOrder ==
    Decided =>
        LET photo  == deIn.isPhoto
            picker == ~photo /\ deIn.picker
            gif    == ~photo /\ ~deIn.picker /\ deIn.isGif /\ deIn.convertGif
            rest   == ~photo /\ ~deIn.picker /\ ~gif
            audio  == rest /\ deIn.isAudioOnly
            mute   == rest /\ ~deIn.isAudioOnly /\ deIn.isAudioMuted
            hls    == rest /\ ~deIn.isAudioOnly /\ ~deIn.isAudioMuted
                           /\ deIn.isHLS
        IN  /\ photo  <=> deOut.action = "photo"
            /\ picker <=> deOut.action = "picker"
            /\ gif    <=> deOut.action = "gif"
            /\ audio  <=> deOut.action = "audio"
            /\ mute   <=> deOut.action = "muteVideo"
            /\ hls    <=> deOut.action = "hls"
            /\ (~photo /\ ~picker /\ ~gif /\ ~audio /\ ~mute /\ ~hls)
                   <=> deOut.action = "video"

\* a GIF of an HLS source with conversion and audio-only both requested:
\* three rules match and gif, the first of them, is chosen
ActionPriorityWitness ==
    /\ Decided
    /\ ~deIn.isPhoto /\ ~deIn.picker
    /\ deIn.isGif /\ deIn.convertGif /\ deIn.isAudioOnly /\ deIn.isHLS
    /\ deOut.action = "gif"

\* C2 as stated: with isPhoto and a picker both present the picker action
\* and the picker response are selected; with isPhoto alone, photo.
PickerBeatsPhoto ==
    Decided =>
        /\ (deIn.isPhoto /\ deIn.picker) =>
              (deOut.action = "picker" /\ deOut.responseType = "picker")
        /\ (deIn.isPhoto /\ ~deIn.picker) => deOut.action = "photo"

\* C2 as amended: with isPhoto and a picker both present the photo action is
\* selected and the response is not a picker; with isPhoto alone the action
\* is photo; with a picker alone the picker action and the picker response
\* are selected.
PhotoBeatsPicker ==
    Decided =>
        /\ (deIn.isPhoto /\ deIn.picker) =>
              (deOut.action = "photo" /\ deOut.responseType # "picker")
        /\ (deIn.isPhoto /\ ~deIn.picker) => deOut.action = "photo"
        /\ (~deIn.isPhoto /\ deIn.picker) =>
              (deOut.action = "picker" /\ deOut.responseType = "picker")

PhotoBeatsPickerWitness ==
    /\ Decided
    /\ deIn.isPhoto /\ deIn.picker
    /\ deOut.action = "photo"
    /\ deOut.responseType = "tunnel"

\* the request being served is a normal GET with parameters of the right
\* lengths, so that verifyStream decides it
Verifying ==
    tunnelReq.sent /\ tunnelReq.lens = WellFormedLens /\ ~tunnelReq.p

SameReference(q, rf) ==
    /\ q.id = rf.id /\ q.exp = rf.exp /\ q.sig = rf.sig
    /\ q.sec = rf.sec /\ q.iv = rf.iv

\* C3: for a reference the server issued, a changed sig, or an exp increased
\* with the sig left as it was, is answered 401 and never 404, whether or
\* not the stored entry still exists.
TamperIsSignatureFailure ==
    Verifying =>
        \A rf \in issued :
            (/\ tunnelReq.id = rf.id
             /\ \/ tunnelReq.exp = rf.exp /\ tunnelReq.sig # rf.sig
                \/ tunnelReq.exp > rf.exp /\ tunnelReq.sig = rf.sig)
            => tunnelRes.status = 401

\* an exp pushed past the real expiry, presented when the reference has
\* expired and the store has dropped its entry
TamperWitness ==
    /\ Verifying
    /\ \E rf \in issued :
          /\ tunnelReq.id = rf.id /\ tunnelReq.sig = rf.sig
          /\ tunnelReq.exp > rf.exp
          /\ now > rf.exp /\ now <= tunnelReq.exp
          /\ ~streamCache[rf.id].present
    /\ tunnelRes.status = 401

NotFoundResponse ==
    [NoResponse EXCEPT !.status = 404, !.verified = TRUE]

\* C4: a reference with a valid signature presented after its exp is
\* answered 404 without a stream, exactly as one whose entry is not in the
\* store.
ExpiredIsNotFound ==
    (/\ Verifying
     /\ tunnelReq.sig = Hmac(tunnelReq.id, tunnelReq.exp)
     /\ \/ now > tunnelReq.exp
        \/ ~(tunnelReq.id \in Ids /\ streamCache[tunnelReq.id].present))
    => tunnelRes = NotFoundResponse

\* the lifecycle scenario: the untouched reference one lifespan and one time
\* unit after its creation, its entry still in the store
ExpiredWitness ==
    /\ Verifying
    /\ \E rf \in issued :
          /\ SameReference(tunnelReq, rf)
          /\ now = rf.exp + 1
          /\ streamCache[rf.id].present
    /\ tunnelRes.status = 404

PreflightVerifies ==
    (tunnelReq.sent /\ tunnelReq.p) =>
        /\ ~tunnelRes.opened
        /\ tunnelRes.status = 200 =>
              /\ tunnelReq.lens = WellFormedLens
              /\ VerifyStream(tunnelReq).service # None
        /\ tunnelRes.status # 200 =>
              tunnelRes.status =
                  TunnelHandler([tunnelReq EXCEPT !.p = FALSE]).status

\* C7: a request with a parameter that is missing or not of its fixed
\* length is answered 400 and verifyStream is not called for it.
MalformedRejectedBeforeCrypto ==
    (tunnelReq.sent /\ tunnelReq.lens # WellFormedLens) =>
        /\ tunnelRes.status = 400
        /\ ~tunnelRes.verified
        /\ ~tunnelRes.opened

\* a sig of 44 characters on an otherwise valid, unexpired reference
MalformedWitness ==
    /\ tunnelReq.sent
    /\ tunnelReq.lens.sig = SigLength + 1
    /\ ~tunnelReq.p
    /\ \E rf \in issued : SameReference(tunnelReq, rf) /\ now < rf.exp
    /\ tunnelRes.status = 400

\* C8: at most one response is written per request, whatever the order of
\* the timer and the handler.
OneResponsePerRequest ==
    \A i \in ReqIds : Len(reqs[i].responses) <= 1

\* the timeout answered first and the handler finished afterwards
LateHandlerWitness ==
    \E i \in ReqIds :
        /\ reqs[i].pc = "done"
        /\ Len(reqs[i].responses) = 1
        /\ reqs[i].responses[1].by = "timeout"

\* C9: a request not answered when its timeout has elapsed gets the 504
\* timeout response at that moment; once a response has been completed the
\* timer is cancelled and no timeout response is produced.
TimeoutPreempts ==
    \A i \in ReqIds :
        reqs[i].pc # "idle" =>
            /\ now > reqs[i].deadline => reqs[i].responses # <<>>
            /\ \A n \in 1..Len(reqs[i].responses) :
                  LET w == reqs[i].responses[n]
                  IN  w.by = "timeout" =>
                         /\ n = 1
                         /\ w.status = 504
                         /\ w.at = reqs[i].deadline
            /\ reqs[i].responses # <<>> => ~reqs[i].timerArmed

\* one request answered 504 at its deadline while another was answered in
\* time by its handler
TimeoutWitness ==
    \E i, j \in ReqIds :
        /\ reqs[i].responses # <<>>
        /\ reqs[i].responses[1].by = "timeout"
        /\ now > reqs[i].deadline
        /\ reqs[j].responses # <<>>
        /\ reqs[j].responses[1].by = "handler"
        /\ now > reqs[j].deadline

\* C10: a match call that reads the cache, hit or miss, invokes the service
\* handler exactly once, and the urls and headers of the result handed to
\* the decision engine are the ones that invocation returned.
FreshUrlsOnEveryCall ==
    \A c \in CallIds :
        /\ calls[c].cacheRead =>
              /\ calls[c].invocations = 1
              /\ \A b \in CallIds \ {c} : calls[b].serial # calls[c].serial
        /\ calls[c].handed.defined =>
              /\ calls[c].cacheRead
              /\ calls[c].handed.urls = calls[c].serial
              /\ calls[c].handed.headers = calls[c].serial

\* a cache hit: the metadata of an earlier call with the urls of this one
CacheHitWitness ==
    \E b, c \in CallIds :
        /\ b # c
        /\ calls[b].handed.defined /\ ~calls[b].cachedMetadata.defined
        /\ calls[c].cachedMetadata.defined
        /\ calls[c].handed.defined
        /\ calls[c].handed.urls > calls[b].handed.urls

\* C11: no metadata-cache entry holds a media URL of a handler result, the
\* URLs of picker items included, nor its headers or raw request, and every
\* media URL handed on comes from the fresh handler call.
CacheIsMetadataOnly ==
    /\ \A k \in MetaKeys :
          LET e == metadataCache.cache[k]
          IN  e.present =>
                 /\ e.value.urls = NoUrl
                 /\ e.value.headers = NoUrl
                 /\ e.value.originalRequest = NoUrl
                 /\ \A i \in 1..Len(e.value.picker) :
                       e.value.picker[i] = NoUrl
    /\ \A c \in CallIds :
          calls[c].handed.defined =>
              \A i \in 1..Len(calls[c].handed.picker) :
                  calls[c].handed.picker[i] = calls[c].serial

\* C12: when the service handler throws or rejects, match resolves with the
\* error response of code fetch.critical and the metadata cache is left as
\* it was.
ResolverThrowContained ==
    [][\A c \in CallIds :
          (~calls[c].threw /\ calls'[c].threw) =>
              /\ calls'[c].pc = "done"
              /\ calls'[c].response.status = 400
              /\ calls'[c].response.code = ApiCode("fetch.critical")
              /\ metadataCache' = metadataCache]_vars

\* the handler threw on a cache hit, with the entry still in the cache
ResolverThrowWitness ==
    \E c \in CallIds :
        /\ calls[c].threw
        /\ calls[c].cachedMetadata.defined
        /\ metadataCache.cache[GenerateCacheKey(calls[c].in)].present
        /\ calls[c].response.code = ApiCode("fetch.critical")

\* C13: a critical handler error is answered with the same response
\* whatever the handler reported, marked critical with status 500 and
\* without the handler's code or context; a non-critical error is answered
\* with its own code and context and status 400.
CriticalErrorIsOpaque ==
    \A c \in CallIds :
        LET r == calls[c].result
            host == calls[c].in.host
        IN  (r.defined /\ r.error # None) =>
               IF r.critical
               THEN /\ calls[c].response.status = 500
                    /\ calls[c].response.critical
                    /\ calls[c].response.code # ApiCode(r.error)
                    /\ calls[c].response.context = None
                    /\ \A d \in CallIds :
                          (/\ calls[d].result.defined
                           /\ calls[d].result.error # None
                           /\ calls[d].result.critical)
                          => calls[d].response = calls[c].response
               ELSE /\ calls[c].response.status = 400
                    /\ ~calls[c].response.critical
                    /\ calls[c].response.code = ApiCode(r.error)
                    /\ calls[c].response.context =
                          GetErrorContext(r.error, host)

\* C14: a pattern match that fails the service's tester is answered
\* link.unsupported; the service handler is not invoked and the metadata
\* cache is neither read nor written.
PatternRejectIsolated ==
    [][\A c \in CallIds :
          (/\ calls[c].pc = "idle"
           /\ calls'[c].pc # "idle"
           /\ ~Tester(calls'[c].in)) =>
              /\ calls'[c].pc = "done"
              /\ calls'[c].response.status = 400
              /\ calls'[c].response.code = ApiCode("link.unsupported")
              /\ calls'[c].invocations = 0
              /\ ~calls'[c].cacheRead
              /\ resolverCalls' = resolverCalls
              /\ metadataCache' = metadataCache]_vars

\* a YouTube id of 12 characters rejected while the cache holds the entry
\* of an earlier request
PatternRejectWitness ==
    \E b, c \in CallIds :
        /\ calls[c].pc = "done"
        /\ calls[c].in.host = "youtube" /\ calls[c].in.idLength = 12
        /\ calls[c].response.code = ApiCode("link.unsupported")
        /\ calls[c].invocations = 0
        /\ metadataCache.cache[GenerateCacheKey(calls[b].in)].present

\* C15: for a decision that is neither HLS nor a picker, "preferred" gives
\* the response type local-processing exactly when the processing type is
\* one of merge, remux, mute, audio, gif; "forced" always gives it;
\* "disabled" never does.
LocalProcessingRule ==
    (Decided /\ deOut.status = "done" /\ ~deOut.isHLS
       /\ deOut.responseType # "picker") =>
        CASE deIn.localProcessing = "preferred" ->
                (deOut.responseType = "local-processing"
                    <=> deOut.type \in extraProcessingTypes)
          [] deIn.localProcessing = "forced" ->
                deOut.responseType = "local-processing"
          [] OTHER -> deOut.responseType # "local-processing"

\* "preferred" with a YouTube video the handler wants merged
LocalProcessingWitness ==
    /\ Decided /\ deOut.status = "done"
    /\ deIn.host = "youtube" /\ deOut.action = "video"
    /\ deIn.localProcessing = "preferred"
    /\ deOut.type = "merge"
    /\ deOut.responseType = "local-processing"

\* C16: for a result with isHLS set, whatever its action, and for a picker
\* response, the response type is never local-processing.
NoLocalProcessingForHLS ==
    (Decided /\ (deIn.isHLS \/ deOut.action = "picker")) =>
        deOut.responseType # "local-processing"

\* C17: with alwaysProxy the response type is never redirect; a decision
\* the switch made a redirect has the processing type proxy and is a
\* tunnel, which only forced local processing turns into local-processing.
ForcedProxyNeverRedirects ==
    (Decided /\ deOut.status = "done" /\ deIn.alwaysProxy) =>
        /\ deOut.responseType # "redirect"
        /\ SwitchResponseType(deIn, deOut.action) = "redirect" =>
              /\ deOut.type = "proxy"
              /\ deOut.responseType \in {"tunnel", "local-processing"}
              /\ deOut.responseType = "local-processing" =>
                    deIn.localProcessing = "forced"

\* a Facebook video, a redirect by default, requested with alwaysProxy
ForcedProxyWitness ==
    /\ Decided /\ deIn.alwaysProxy
    /\ deIn.host = "facebook" /\ deOut.action = "video"
    /\ deIn.localProcessing = "disabled"
    /\ deOut.responseType = "tunnel"
    /\ deOut.type = "proxy"

ExpiredNeverReturned ==
    (lruOp.op \in {"get", "has"} /\ lruOp.hit) =>
        ~(lruOp.expiresAt # NullExpiry /\ lruOp.at > lruOp.expiresAt)

\* C20: normalization is idempotent: normalizing the URL that normalizeURL
\* returned gives that URL again, whether or not either call was served
\* from the normalized-URL cache
NormalizeIdempotent ==
    urlCall.again => urlCall.result = urlCall.previous

\* the documented short links and alternate domains: a short-link path is
\* one identifier, an xhslink.com path two, none ends in a slash or has
\* a query
ShortLink(s) ==
    /\ \A i \in 1..Len(s.path) : s.path[i] # ""
    /\ s.query = NoQuery
    /\ \/ s.hostname \in {"x.com", "vxtwitter.com", "fixvx.com"}
       \/ s.hostname \in {"youtu.be", "b23.tv", "fb.watch", "v.redd.it"}
             /\ Len(s.path) = 1
       \/ s.hostname = "xhslink.com" /\ Len(s.path) = 2

\* the canonical form the documentation gives for a short link
ShortLinkCanonical(s) ==
    CASE s.hostname = "youtu.be" ->
           [hostname |-> "youtube.com", path |-> <<"watch">>,
            v |-> s.path[1], service |-> "youtube"]
      [] s.hostname = "b23.tv" ->
           [hostname |-> "bilibili.com",
            path |-> <<"_shortLink", s.path[1]>>,
            v |-> None, service |-> "bilibili"]
      [] s.hostname = "fb.watch" ->
           [hostname |-> "web.facebook.com",
            path |-> <<"_shortLink", s.path[1]>>,
            v |-> None, service |-> "facebook"]
      [] s.hostname = "v.redd.it" ->
           [hostname |-> "www.reddit.com",
            path |-> <<"video", s.path[1]>>,
            v |-> None, service |-> "reddit"]
      [] s.hostname = "xhslink.com" ->
           [hostname |-> "www.xiaohongshu.com", path |-> s.path,
            v |-> None, service |-> "xiaohongshu"]
      [] OTHER ->
           [hostname |-> "twitter.com", path |-> s.path,
            v |-> None, service |-> "twitter"]

\* C24: normalizeURL rewrites every documented short link and alternate
\* domain to the canonical host and path of its service, and
\* getHostIfValid then finds that service
ShortLinksCanonical ==
    (urlCall.arg = urlIn /\ ~urlCall.again /\ ShortLink(urlIn)) =>
        LET canonical == ShortLinkCanonical(urlIn)
        IN  /\ urlCall.result.hostname = canonical.hostname
            /\ urlCall.result.path = canonical.path
            /\ urlCall.result.query.v = canonical.v
            /\ GetHostIfValid(urlCall.result) = canonical.service

\* C21: extract is deterministic: every call for a URL and a set of enabled
\* services returns the value computed from that URL and that set, whether
\* it is computed for the first time, served from the pattern-match cache
\* or recomputed after the entry expired or was evicted
ExtractDeterministic ==
    (extractCall.fn = "extract" /\ ~extractCall.threw) =>
        extractCall.result =
            ExtractResult(ParseURL(extractCall.key[1]), extractCall.key[2],
                          env.official)

ExtractDeterministicWitness ==
    /\ extractCall.fn = "extract"
    /\ extractCall.how = "recomputed"
    /\ extractCall.result.host = "youtube"
    /\ \E k \in ExtractKeys :
          /\ k # extractCall.key
          /\ k[1] = extractCall.key[1]
          /\ k \in extractCall.stored

\* C22: normalizeURL and extract never raise an exception, whatever string
\* they are given
NeverRaises == ~extractCall.threw

\* C23: a caller that changes the object extract returned, or its
\* patternMatch map, does not change what a later extract call for the
\* same URL and enabled services returns
ResultsAreCopies ==
    (extractCall.fn = "extract" /\ extractCall.mutated) =>
        extractCall.result =
            ExtractResult(ParseURL(extractCall.key[1]), extractCall.key[2],
                          env.official)

\* C25: once the client connection errored or closed, the upstream body
\* errored or closed or the upstream request failed, shutdown eventually
\* runs: the request is aborted, the response is ended and
\* destroyInternalStream is called
ShutdownEventuallyRuns ==
    [](  (\/ proxy.clientErrored \/ proxy.clientClosed
          \/ proxy.upstreamErrored \/ proxy.upstreamClosed
          \/ proxy.pc = "failed")
       => <>(proxy.aborted /\ proxy.ended /\ proxy.destroyCalls > 0))

\* C26: within one rate-limit window, a request that comes after its client
\* has made RateLimitMax requests to the main endpoint is answered 429 and
\* never reaches the handler that extracts and resolves its URL
RateLimited ==
    \A i \in DOMAIN apiReqs :
        apiReqs[i].nth > RateLimitMax
            => apiReqs[i].status = 429 /\ ~apiReqs[i].reached

\* a request over the limit has been answered, after requests of the same
\* window were handled
RateLimitedWitness ==
    \E i, j \in DOMAIN apiReqs :
        /\ apiReqs[i].nth > RateLimitMax
        /\ apiReqs[i].status = 429
        /\ apiReqs[j].ip = apiReqs[i].ip
        /\ apiReqs[j].window = apiReqs[i].window
        /\ apiReqs[j].reached

\* C27: the 429 of the rate limiter of the main endpoint has a JSON body
\* with status "error", code error.api.rate_exceeded and the configured
\* window as the limit of its context
RateExceededBody ==
    \A i \in DOMAIN apiReqs :
        apiReqs[i].status = 429
            => /\ apiReqs[i].json.defined
               /\ apiReqs[i].json.status = "error"
               /\ apiReqs[i].json.code = "error.api.rate_exceeded"
               /\ apiReqs[i].json.context = {<<"limit", RateLimitWindow>>}

\* C28: the auto-downloads of a picker go in batches: never more than the
\* chosen concurrency (3 for at most 20 files, 2 for more) of its downloads
\* are pending, and the downloads of a batch start only after those of the
\* batch before have settled and the delay of the service has passed
BoundedBatches ==
    dl.type = "picker" /\ dl.pc \notin {"idle", "done"} =>
        /\ dl.concurrency = (IF dl.n <= 20 THEN 3 ELSE 2)
        /\ Cardinality(dl.inflight) + Cardinality(dl.retrying)
               <= dl.concurrency
        /\ dl.inflight \subseteq Batch(dl.i, dl.concurrency, dl.n)
        /\ dl.pc = "running" /\ dl.i > 0 =>
               dl.waited = BatchDelay(dl.service)

\* C29: the delays downloadFile waits before its retries start at
\* retryDelay and each is twice the one before
ExponentialBackoff ==
    \A k \in DOMAIN df.delays :
        df.delays[k] = IF k = 1 THEN df.retryDelay
                       ELSE 2 * df.delays[k - 1]

\* C30: createResponse with autoDownload has returned its response once it
\* has started the downloads, while they are pending, and the status and
\* body it returned are those of the response whatever the downloads give
FireAndForget ==
    dl.pc # "idle" /\ dl.autoDownload =>
        dl.response = ResponseOf(dl.type, dl.n)

\* every download of a picker of several batches has settled, with a
\* failure and a rejection among them, and the response is there
FireAndForgetWitness ==
    /\ dl.autoDownload
    /\ dl.type = "picker"
    /\ dl.pc = "failed"
    /\ dl.limited # {}
    /\ dl.inflight = {}
    /\ dl.response = ResponseOf(dl.type, dl.n)

\* C31: once the timeout response of a request has gone out, the return of
\* the resolver has no effect on its behalf: no tunnel is created, no
\* metadata is cached and no auto-download is started
ShortCircuited ==
    \A i \in ReqIds :
        /\ ~posts[i].cached.late
        /\ ~posts[i].stream.late
        /\ ~posts[i].download.late

\* the error extract gives for a URL of a service that is not enabled
DisabledError(host) ==
    IF env.official /\ host = "youtube"
    THEN "youtube.temporary_disabled" ELSE "service.disabled"

\* C32, as stated: the result of extract follows the set of enabled
\* services it was called with, whatever the cache holds for the URL under
\* another set: for a URL of a service outside the set it is
\* service.disabled, for one inside it is not
DisabledReturnsServiceDisabled ==
    (extractCall.fn = "extract" /\ ~extractCall.threw) =>
        LET host == GetHostIfValid(ParseURL(extractCall.key[1]))
        IN  host # None =>
              (host \notin extractCall.key[2]
                   <=> extractCall.result.error = "service.disabled")

\* C32, amended: for a URL of a service outside the set the result is the
\* error of a disabled service, which is youtube.temporary_disabled for
\* YouTube on an instance whose API URL is under .imput.net and
\* service.disabled otherwise; for one inside it is neither
DisabledFollowsEnabledSet ==
    (extractCall.fn = "extract" /\ ~extractCall.threw) =>
        LET host == GetHostIfValid(ParseURL(extractCall.key[1]))
        IN  host # None =>
              /\ host \notin extractCall.key[2]
                   => extractCall.result.error = DisabledError(host)
              /\ host \in extractCall.key[2]
                   => extractCall.result.error
                          \notin {"service.disabled",
                                  "youtube.temporary_disabled"}

\* a YouTube URL is refused with YouTube disabled while the cache holds,
\* unexpired, its success under the set with YouTube enabled
DisabledFollowsEnabledSetWitness ==
    /\ extractCall.fn = "extract"
    /\ "youtube" \notin extractCall.key[2]
    /\ extractCall.result.error = DisabledError("youtube")
    /\ LET k == <<extractCall.key[1], Services>>
       IN  /\ patternMatchCache.cache[k].present
           /\ ~LruExpired(patternMatchCache, k, now)
           /\ patternMatchCache.cache[k].value.error = None
           /\ patternMatchCache.cache[k].value.host = "youtube"

\* C33: two requests for the same service and pattern match whose
\* parameters differ only in delivery preferences get the same
\* metadata-cache key, and two that differ in a parameter that shapes the
\* content get different keys
KeyFollowsContentShape ==
    keyCall.called =>
        LET a == keyCall.params[1]
            b == keyCall.params[2]
            same == /\ keyCall.host[1] = keyCall.host[2]
                    /\ keyCall.patternMatch[1] = keyCall.patternMatch[2]
        IN  /\ (same /\ \A name \in ParamNames \ DeliveryParams :
                            a[name] = b[name])
                  => keyCall.key[1] = keyCall.key[2]
            /\ (\E name \in ContentParams : a[name] # b[name])
                  => keyCall.key[1] # keyCall.key[2]

\* two requests that differ in a delivery preference only, and two that
\* differ in the subtitle language only
KeyFollowsContentShapeWitness ==
    /\ keyCall.called
    /\ keyCall.host[1] = keyCall.host[2]
    /\ keyCall.patternMatch[1] = keyCall.patternMatch[2]
    /\ keyCall.params[1] = ParamsWith({"alwaysProxy"})
    /\ keyCall.params[2] = ParamsWith({"autoDownload"})
    /\ keyCall.key[1] = keyCall.key[2]
    /\ keyCall.key[1] #
           GenerateCacheKeyString(keyCall.host[1], keyCall.patternMatch[1],
                                  ParamsWith({"subtitleLang"}))

\* C34: a resolver result with an error is neither stored in the metadata
\* cache nor merged with cached metadata: the step of match() that takes
\* it leaves the cache as it is, hands nothing to the decision engine and
\* answers with the code of that error
ErrorsBypassCache ==
    [][\A c \in CallIds :
          (/\ calls[c].pc = "awaitHandler"
           /\ calls'[c].pc = "done"
           /\ ~calls'[c].threw
           /\ calls'[c].result.error # None)
          => /\ metadataCache' = metadataCache
             /\ calls'[c].handed = Undefined
             /\ calls'[c].response.code = ApiCode(calls'[c].result.error)
      ]_vars

\* a call that found cached metadata got an error from the resolver, and
\* the entry is still what the call had read
ErrorsBypassCacheWitness ==
    \E c \in CallIds :
        LET key == GenerateCacheKey(calls[c].in)
        IN  /\ calls[c].pc = "done"
            /\ calls[c].cachedMetadata.defined
            /\ calls[c].result.error # None
            /\ metadataCache.cache[key].present
            /\ metadataCache.cache[key].value = calls[c].cachedMetadata
            /\ calls[c].response.code = ApiCode(calls[c].result.error)

\* C35: the rate-limit key cache is transparent: for every request
\* keyGenerator gives the key the HMAC of its address gives, whether the
\* cache has no entry, has one, has an expired one or was swept, and a key
\* that comes from the cache comes from an entry before its expiresAt
KeyCacheTransparent ==
    \A i \in DOMAIN apiReqs :
        apiReqs[i].nth > 0 =>
            /\ apiReqs[i].key = HashHmac(apiReqs[i].ip)
            /\ apiReqs[i].hit =>
                  /\ apiReqs[i].entry.present
                  /\ apiReqs[i].at < apiReqs[i].entry.expiresAt

\* one address got its key computed, then from the cache, then computed
\* again over the expired entry
KeyCacheTransparentWitness ==
    \E i, j, k \in DOMAIN apiReqs :
        /\ i < j /\ j < k
        /\ apiReqs[i].ip = apiReqs[j].ip /\ apiReqs[j].ip = apiReqs[k].ip
        /\ apiReqs[i].nth > 0 /\ ~apiReqs[i].hit
        /\ apiReqs[j].hit
        /\ apiReqs[k].nth > 0 /\ ~apiReqs[k].hit /\ apiReqs[k].entry.present
        /\ apiReqs[i].key = apiReqs[k].key

\* C36: downloadFile makes at most maxRetries + 1 download attempts, for
\* every service and every kind of failure, and then has returned
AttemptsBounded ==
    /\ df.attempts <= df.maxRetries + 1
    /\ df.attempt > df.maxRetries => df.pc = "returned"

\* a call reads the metadata cache in this step and finds an entry
MetadataHit(c) ==
    /\ calls[c].pc = "idle"
    /\ calls'[c].pc = "awaitHandler"
    /\ calls'[c].cachedMetadata.defined

\* a call that had missed the cache stores the metadata of its result in
\* this step
MetadataStored(k) ==
    \E c \in CallIds :
        /\ calls[c].pc = "awaitHandler"
        /\ calls'[c].pc = "done"
        /\ ~calls[c].cachedMetadata.defined
        /\ GenerateCacheKey(calls[c].in) = k

\* C37: a metadata-cache entry is served no later than its TTL after it was
\* stored: the expiry of an entry is set to the time of the store plus the
\* TTL, only a store after a miss sets it, a hit leaves it as it is, and a
\* hit is served no later than the expiry
ServedWithinTtl ==
    [][/\ \A k \in MetaKeys :
             LET e == metadataCache.cache[k]
                 f == metadataCache'.cache[k]
             IN  (f.present /\ (~e.present \/ f.expiresAt # e.expiresAt))
                     => /\ MetadataStored(k)
                        /\ f.expiresAt = now + MetadataTtl
       /\ \A c \in CallIds :
             MetadataHit(c) =>
                 LET k == GenerateCacheKey(calls'[c].in)
                 IN  /\ metadataCache.cache[k].present
                     /\ now <= metadataCache.cache[k].expiresAt
                     /\ metadataCache'.cache[k].expiresAt =
                            metadataCache.cache[k].expiresAt
                     /\ metadataCache'.cache[k].value =
                            metadataCache.cache[k].value
      ]_vars

\* C37 witness: a call stored the metadata of its result, a later call was
\* served the entry from the cache, and the entry, still in the cache, has
\* passed its expiry
ServedWithinTtlWitness ==
    \E a, b \in CallIds :
        LET k == GenerateCacheKey(calls[b].in)
        IN  /\ a < b
            /\ calls[a].pc = "done" /\ ~calls[a].cachedMetadata.defined
            /\ calls[a].result.error = None
            /\ calls[b].cacheRead /\ calls[b].cachedMetadata.defined
            /\ GenerateCacheKey(calls[a].in) = k
            /\ metadataCache.cache[k].present
            /\ now > metadataCache.cache[k].expiresAt

\* C38: running the decision engine on a resolver result leaves the
\* metadata-cache entry of the request, and the sublanguage of its
\* fileMetadata, as they were
DecisionLeavesCache ==
    \A c \in ShareCallIds :
        share.calls[c].decided =>
            share.calls[c].left = share.calls[c].stored

\* C39: an execute that finds the breaker open before nextAttempt is
\* rejected with CIRCUIT_BREAKER_OPEN and does not call the function; a
\* closed breaker has fewer than failureThreshold failures in its
\* monitoring window, since the failure that reaches the threshold opens it
\* for resetTimeout; an execute that finds the breaker open at or after
\* nextAttempt makes it half-open and calls the function
BreakerOpens ==
    /\ breaker.state = CLOSED =>
           Len(RecentFailures(breaker.failures, now)) < FailureThreshold
    /\ \A c \in ExecuteIds :
           LET e == breaker.calls[c]
           IN  /\ (e.pc # "idle" /\ e.found = OPEN /\ e.at < e.due) =>
                      /\ ~e.invoked
                      /\ e.pc = "done"
                      /\ e.outcome = "CIRCUIT_BREAKER_OPEN"
                      /\ e.entered = OPEN
               /\ (e.pc # "idle" /\ e.found = OPEN /\ e.at >= e.due) =>
                      /\ e.invoked
                      /\ e.entered = HALF_OPEN
               /\ (e.outcome = "error" /\ e.settledIn = CLOSED
                     /\ e.left # CLOSED) =>
                      /\ e.left = OPEN
                      /\ e.leftDue = e.settledAt + ResetTimeout
               /\ e.outcome = "CIRCUIT_BREAKER_OPEN" => e.found = OPEN

\* C39 witness: failures have opened the breaker, an execute in the cooldown
\* was rejected, and a later one, after the cooldown, made it half-open and
\* called the function
BreakerOpensWitness ==
    \E a, b, c \in ExecuteIds :
        /\ a < b /\ b < c
        /\ breaker.calls[a].outcome = "error"
        /\ breaker.calls[a].settledIn = CLOSED
        /\ breaker.calls[a].left = OPEN
        /\ breaker.calls[b].outcome = "CIRCUIT_BREAKER_OPEN"
        /\ breaker.calls[c].found = OPEN
        /\ breaker.calls[c].invoked
        /\ breaker.calls[c].entered = HALF_OPEN

\* C40: when the call of a half-open breaker fails, the breaker is open
\* again, with a new nextAttempt
ProbeFailureReopens ==
    \A c \in ExecuteIds :
        LET e == breaker.calls[c]
        IN  (e.outcome = "error" /\ e.settledIn = HALF_OPEN) =>
                /\ e.left = OPEN
                /\ e.leftDue = e.settledAt + ResetTimeout

====
